---- MODULE Spec2Model ----
(***************************************************************************)
(* Model of the ingestion core of the policy-analysis framework:           *)
(*   - CharacterSplitter   (data_pipeline/processors/document_splitter.py) *)
(*   - DocumentChunker     (data_pipeline/processing/document_chunker.py)  *)
(*   - FileSystemDocumentStore (data_pipeline/datastore/document_store.py) *)
(*   - VectorDatabaseManager   (data_pipeline/datastore/vector_database.py)*)
(* Each component has its own specification (SpecSplit, SpecStore,         *)
(* SpecIndex) over the shared variable list; the variables of the other    *)
(* components stay at their initial value.  SpecLoop follows the splitting *)
(* loops one iteration per step, SpecAddRace two add_documents calls that  *)
(* run side by side, SpecClean the two text cleaners                       *)
(* (data_pipeline/processors/text_cleaner.py and                           *)
(* data_pipeline/processing/text_cleaner.py), SpecTopK searches with an    *)
(* n_results that is not positive, SpecPair the store used with two ids    *)
(* and with sidecars damaged from outside, SpecStoreRace a save and a      *)
(* retrieve that run side by side.                                         *)
(***************************************************************************)
EXTENDS Integers, Sequences, FiniteSets, TLC

VARIABLES
    \* --- splitters ---
    rawSize,      \* config value 'chunk_size' as passed by the caller
    rawOverlap,   \* config value 'chunk_overlap' as passed by the caller
    document,     \* the Document handed to the splitters
    csOut,        \* last return value of CharacterSplitter.split_document
                  \* (<< >> before the first call)
    csCalls,      \* number of split_document calls so far (capped)
    dcOut,        \* last return value of DocumentChunker.split_text
    run,          \* a split in progress: which loop runs and where it stands
    \* --- text cleaners ---
    rawText,      \* the raw text handed to the cleaners
    cleaned,      \* the last cleaner call: which cleaner, its flag, its result
    \* --- document store ---
    stPaths,      \* document id -> the path _get_storage_path gives it
    fs,           \* file system: path -> file bytes / sidecar text (or absent)
    stHist,       \* per storage path: what the last write/delete left there
    stOp,         \* the last store operation and its outcome
    race,         \* a save and a retrieve running side by side: where each
                  \* stands, and what the retrieve has read so far
    \* --- vector index ---
    collection,   \* the backend collection: its records in insertion order
    ixHist,       \* per id: the record of the most recent successful upsert
    ixOp,         \* the last index operation and its outcome
    adds          \* add_documents calls running side by side: where each
                  \* stands, its local lists, and who wrote each id last

vars == <<rawSize, rawOverlap, document, csOut, csCalls, dcOut, run,
          rawText, cleaned,
          stPaths, fs, stHist, stOp, race, collection, ixHist, ixOp, adds>>

splitVars == <<rawSize, rawOverlap, document, csOut, csCalls, dcOut, run>>
cleanVars == <<rawText, cleaned>>
storeVars == <<stPaths, fs, stHist, stOp, race>>
indexVars == <<collection, ixHist, ixOp, adds>>

\* ------------------------------------------------------------------------
\* Bounds of the model
\* ------------------------------------------------------------------------
MaxSize == 4       \* largest configured chunk_size / chunk_overlap drawn
MaxLen == 6        \* longest document content drawn
MaxCalls == 2      \* split_document calls tracked per behaviour
MaxSteps == 8      \* loop iterations followed before a run is given up

None == "None"

Min(a, b) == IF a <= b THEN a ELSE b
Max(a, b) == IF a >= b THEN a ELSE b

\* dict[k] = v on a Python dict modelled as a function
DictPut(m, k, v) == [x \in (DOMAIN m) \cup {k} |-> IF x = k THEN v ELSE m[x]]

EmptyDict == [x \in {} |-> None]

\* Python's s[a:b] for a sequence s and arbitrary integers a, b
PySlice(s, a, b) ==
    LET n  == Len(s)
        a1 == IF a < 0 THEN Max(a + n, 0) ELSE Min(a, n)
        b1 == IF b < 0 THEN Max(b + n, 0) ELSE Min(b, n)
    IN  IF a1 >= b1 THEN << >> ELSE SubSeq(s, a1 + 1, b1)

\* ------------------------------------------------------------------------
\* Documents (models/document.py)
\* ------------------------------------------------------------------------
\* Content of length n: characters are code points; the pattern differs per
\* document so that equal offsets of different documents give different text.
ContentOf(base, n) == [i \in 1..n |-> base + (i % 3)]

\* Document.id defaults to str(uuid.uuid4()).  The values drawn during one
\* split_document call are modelled as <<g, i>>: i is the position of the draw
\* within the call, g is the random outcome of that call.  Draws of one call
\* are pairwise distinct, and two calls may or may not draw alike.
UuidOutcomes == {"u1", "u2"}
UuidDraws(n) == { [i \in 1..n |-> <<g, i>>] : g \in UuidOutcomes }

Documents ==
    { [id |-> "d1", content |-> ContentOf(97, n), source |-> "file1.txt",
       metadata |-> [author |-> "Test"], tags |-> <<"test", "nlp">>]
        : n \in 0..MaxLen }
    \cup
    { [id |-> "d2", content |-> ContentOf(100, n), source |-> None,
       metadata |-> [chunk_sequence |-> 99], tags |-> << >>]
        : n \in 0..MaxLen }

\* ------------------------------------------------------------------------
\* CharacterSplitter
\* ------------------------------------------------------------------------
\* __init__ raises ValueError unless chunk_size > 0, chunk_overlap >= 0 and
\* chunk_overlap < chunk_size; the object exists only when none is raised.
CSConstructed(size, overlap) ==
    /\ ~(size <= 0)
    /\ ~(overlap < 0)
    /\ ~(overlap >= size)

\* chunk_seq = 0 at the start of every split_document call
CSStartSeq == 0


\* start_index moves back by chunk_size - chunk_overlap
CSAdvanceBackwards(start, size, overlap) == start - (size - overlap)

\* start_index += self.chunk_size - self.chunk_overlap
CSAdvance(start, size, overlap) == start + size - overlap

\* f"{document.source or 'unknown'}_chunk_{chunk_seq}"
CSChunkSource(doc, seq) ==
    << IF doc.source = None THEN "unknown" ELSE doc.source, "_chunk_", seq >>

\* lineage keys assigned first and the parent's metadata written over them
CSChunkMetadataParentWins(doc, seq, start, end) ==
    LET lineage == DictPut(DictPut(DictPut(DictPut(EmptyDict,
                       "original_doc_id", doc.id),
                       "chunk_sequence", seq),
                       "chunk_start_index", start),
                       "chunk_end_index", end)
    IN  [k \in (DOMAIN lineage) \cup (DOMAIN doc.metadata) |->
            IF k \in DOMAIN doc.metadata THEN doc.metadata[k] ELSE lineage[k]]

\* parent metadata copy with the four lineage keys assigned afterwards
CSChunkMetadata(doc, seq, start, end) ==
    DictPut(DictPut(DictPut(DictPut(doc.metadata,
        "original_doc_id", doc.id),
        "chunk_sequence", seq),
        "chunk_start_index", start),
        "chunk_end_index", end)

\* One chunk Document, its id still to be drawn by the default factory.
CSChunk(doc, seq, start, end) ==
    [ id       |-> None,
      content  |-> PySlice(doc.content, start, end),
      source   |-> CSChunkSource(doc, seq),
      metadata |-> CSChunkMetadata(doc, seq, start, end),
      tags     |-> doc.tags ]

\* The while loop of split_document, one iteration per unfolding.
RECURSIVE CSLoop(_, _, _, _, _, _)
CSLoop(doc, size, overlap, start, seq, chunks) ==
    LET n == Len(doc.content) IN
    IF ~(start < n) THEN chunks
    ELSE
      LET end     == Min(start + size, n)
          chunks1 == Append(chunks, CSChunk(doc, seq, start, end))
          start1  == CSAdvance(start, size, overlap)
      IN  IF start1 >= n /\ Len(chunks1) > 0 /\ end < n
          THEN chunks1
          ELSE LET start2 == IF start1 >= end /\ end < n THEN end ELSE start1
               IN  CSLoop(doc, size, overlap, start2, seq + 1, chunks1)

\* split_document up to the ids of the chunks
CSSplit(doc, size, overlap) ==
    IF Len(doc.content) = 0 THEN << >>
    ELSE CSLoop(doc, size, overlap, 0, CSStartSeq, << >>)

\* ------------------------------------------------------------------------
\* DocumentChunker
\* ------------------------------------------------------------------------
Method == "simple"

\* __init__: an overlap >= chunk_size is replaced by 0 (with a warning)
DCOverlap(size, overlap) == IF overlap >= size THEN 0 ELSE overlap

\* next_start = start_index + chunk_size + chunk_overlap (sign slip)
DCNextStartWrongSign(start, size, overlap) == start + size + overlap

\* next_start, forced to start_index + chunk_size when it would not advance
DCNextStart(start, size, overlap) ==
    LET next == start + size - overlap
    IN  IF next <= start THEN start + size ELSE next

\* The while loop of _simple_chunking.  Each appended string is kept with the
\* start_index/end_index of the iteration that appended it.  A loop that has
\* not ended after fuel iterations never ends (start_index does not grow).
RECURSIVE DCLoop(_, _, _, _, _, _)
DCLoop(text, size, overlap, start, chunks, fuel) ==
    LET n == Len(text) IN
    IF ~(start < n) THEN [chunks |-> chunks, status |-> "ok"]
    ELSE IF fuel = 0 THEN [chunks |-> chunks, status |-> "diverges"]
    ELSE
      LET end     == Min(start + size, n)
          piece   == PySlice(text, start, end)
          chunks1 == Append(chunks,
                            [content |-> piece, start |-> start, end |-> end])
          start1  == DCNextStart(start, size, overlap)
      IN  IF start1 >= n /\ Len(piece) < size /\ end = n
          THEN [chunks |-> chunks1, status |-> "ok"]
          ELSE DCLoop(text, size, overlap, start1, chunks1, fuel - 1)

DCSimpleChunking(text, size, overlap) ==
    DCLoop(text, size, overlap, 0, << >>, Len(text) + 1)

\* split_text for a str argument
DCSplitText(text, size, overlap) ==
    IF Len(text) <= size
    THEN [chunks |-> << [content |-> text, start |-> 0, end |-> Len(text)] >>,
          status |-> "ok"]
    ELSE IF Method = "simple"
    THEN DCSimpleChunking(text, size, overlap)
    ELSE [chunks |-> << >>, status |-> "ok"]

\* ------------------------------------------------------------------------
\* Splitter specification: the configuration and the document are drawn at
\* the start; the actions apply the two splitters to them.
\* ------------------------------------------------------------------------
ConfigValues == {0 - 1} \cup (0..MaxSize)

\* no split is in progress
NoRun == [who |-> "none", pc |-> "done", start_index |-> 0, end_index |-> 0,
          emitted |-> 0]

InitSplitVars ==
    /\ rawSize \in ConfigValues
    /\ rawOverlap \in ConfigValues
    /\ document \in Documents
    /\ csOut = << >>
    /\ csCalls = 0
    /\ dcOut = [chunks |-> << >>, status |-> "none"]
    /\ run = NoRun

IdleSplitVars ==
    /\ rawSize = 1
    /\ rawOverlap = 0
    /\ document = CHOOSE d \in Documents : d.id = "d1" /\ Len(d.content) = 0
    /\ csOut = << >>
    /\ csCalls = 0
    /\ dcOut = [chunks |-> << >>, status |-> "none"]
    /\ run = NoRun

\* CharacterSplitter(config).split_document(document)
SplitDocument ==
    /\ CSConstructed(rawSize, rawOverlap)
    /\ LET spans == CSSplit(document, rawSize, rawOverlap) IN
       \E ids \in UuidDraws(Len(spans)) :
          csOut' = [i \in 1..Len(spans) |-> [spans[i] EXCEPT !.id = ids[i]]]
    /\ csCalls' = Min(csCalls + 1, MaxCalls)
    /\ UNCHANGED <<rawSize, rawOverlap, document, dcOut, run>>
    /\ UNCHANGED <<cleanVars, storeVars, indexVars>>

\* DocumentChunker(chunk_size, chunk_overlap).split_text(document.content)
SplitText ==
    /\ dcOut' = DCSplitText(document.content, rawSize,
                            DCOverlap(rawSize, rawOverlap))
    /\ UNCHANGED <<rawSize, rawOverlap, document, csOut, csCalls, run>>
    /\ UNCHANGED <<cleanVars, storeVars, indexVars>>

\* ------------------------------------------------------------------------
\* The two while loops, one iteration per step
\* ------------------------------------------------------------------------
\* split_document up to the first test of the while condition
CSBegin ==
    /\ run.who = "none"
    /\ CSConstructed(rawSize, rawOverlap)
    /\ run' = [NoRun EXCEPT !.who = "cs",
                            !.pc = IF Len(document.content) = 0
                                   THEN "done" ELSE "loop"]
    /\ UNCHANGED <<rawSize, rawOverlap, document, csOut, csCalls, dcOut>>
    /\ UNCHANGED <<cleanVars, storeVars, indexVars>>

\* one test of "while start_index < len(content)" and, when it holds, one
\* pass through the body of split_document's loop
CSIterate ==
    /\ run.who = "cs" /\ run.pc = "loop"
    /\ run.emitted < MaxSteps
    /\ LET n      == Len(document.content)
           start  == run.start_index
           end    == Min(start + rawSize, n)
           start1 == CSAdvance(start, rawSize, rawOverlap)
           start2 == IF start1 >= end /\ end < n THEN end ELSE start1
       IN  run' = IF ~(start < n) THEN [run EXCEPT !.pc = "done"]
                  ELSE IF start1 >= n /\ run.emitted + 1 > 0 /\ end < n
                  THEN [run EXCEPT !.pc = "done", !.start_index = start1,
                                   !.end_index = end, !.emitted = @ + 1]
                  ELSE [run EXCEPT !.start_index = start2,
                                   !.end_index = end, !.emitted = @ + 1]
    /\ UNCHANGED <<rawSize, rawOverlap, document, csOut, csCalls, dcOut>>
    /\ UNCHANGED <<cleanVars, storeVars, indexVars>>

\* split_text up to the first test of _simple_chunking's while condition
DCBegin ==
    /\ run.who = "none"
    /\ run' = IF Len(document.content) <= rawSize
              THEN [NoRun EXCEPT !.who = "dc", !.pc = "done",
                                 !.end_index = Len(document.content),
                                 !.emitted = 1]
              ELSE [NoRun EXCEPT !.who = "dc", !.pc = "loop"]
    /\ UNCHANGED <<rawSize, rawOverlap, document, csOut, csCalls, dcOut>>
    /\ UNCHANGED <<cleanVars, storeVars, indexVars>>

\* one test of "while start_index < text_len" and, when it holds, one pass
\* through the body of _simple_chunking's loop
DCIterate ==
    /\ run.who = "dc" /\ run.pc = "loop"
    /\ run.emitted < MaxSteps
    /\ LET n      == Len(document.content)
           start  == run.start_index
           end    == Min(start + rawSize, n)
           piece  == PySlice(document.content, start, end)
           start1 == DCNextStart(start, rawSize, DCOverlap(rawSize, rawOverlap))
       IN  run' = IF ~(start < n) THEN [run EXCEPT !.pc = "done"]
                  ELSE IF start1 >= n /\ Len(piece) < rawSize /\ end = n
                  THEN [run EXCEPT !.pc = "done", !.start_index = start1,
                                   !.end_index = end, !.emitted = @ + 1]
                  ELSE [run EXCEPT !.start_index = start1,
                                   !.end_index = end, !.emitted = @ + 1]
    /\ UNCHANGED <<rawSize, rawOverlap, document, csOut, csCalls, dcOut>>
    /\ UNCHANGED <<cleanVars, storeVars, indexVars>>

\* ------------------------------------------------------------------------
\* Strings as sequences of one-character strings (document ids, file names)
\* ------------------------------------------------------------------------
LowerLetters == {"a","b","c","d","e","f","g","h","i","j","k","l","m",
                 "n","o","p","q","r","s","t","u","v","w","x","y","z"}
UpperLetters == {"A","B","C","D","E","F","G","H","I","J","K","L","M",
                 "N","O","P","Q","R","S","T","U","V","W","X","Y","Z"}
Digits == {"0","1","2","3","4","5","6","7","8","9"}

\* str.lower() on the characters that occur in the ids of the model
LowerChar(c) ==
    CASE c = "P" -> "p" [] c = "D" -> "d" [] c = "F" -> "f"
      [] c = "H" -> "h" [] c = "T" -> "t" [] c = "M" -> "m" [] c = "L" -> "l"
      [] OTHER -> c
Lower(str) == [i \in 1..Len(str) |-> LowerChar(str[i])]

EndsWith(str, suffix) ==
    /\ Len(suffix) <= Len(str)
    /\ SubSeq(str, Len(str) - Len(suffix) + 1, Len(str)) = suffix

\* str.find for a set of characters, 1-based, from position from; 0 if none
FindAny(str, chars, from) ==
    LET hits == {i \in from..Len(str) : str[i] \in chars}
    IN  IF hits = {} THEN 0 ELSE CHOOSE i \in hits : \A j \in hits : i <= j

\* str.rfind for one character, 1-based; 0 if none
RFind(str, c) ==
    LET hits == {i \in 1..Len(str) : str[i] = c}
    IN  IF hits = {} THEN 0 ELSE CHOOSE i \in hits : \A j \in hits : i >= j

\* str.strip('/')
RECURSIVE LStripSlash(_)
LStripSlash(str) ==
    IF Len(str) > 0 /\ Head(str) = "/" THEN LStripSlash(Tail(str)) ELSE str
RECURSIVE RStripSlash(_)
RStripSlash(str) ==
    IF Len(str) > 0 /\ str[Len(str)] = "/"
    THEN RStripSlash(SubSeq(str, 1, Len(str) - 1)) ELSE str
StripSlash(str) == RStripSlash(LStripSlash(str))

\* str.replace(old, new) for a single character old
ReplaceChar(str, old, new) ==
    [i \in 1..Len(str) |-> IF str[i] = old THEN new ELSE str[i]]

\* urllib.parse.urlsplit: scheme, netloc, path, query, fragment
SchemeChars == LowerLetters \cup UpperLetters \cup Digits \cup {"+", "-", "."}

UrlParse(url) ==
    LET colon     == FindAny(url, {":"}, 1)
        hasScheme == /\ colon > 1
                     /\ url[1] \in LowerLetters \cup UpperLetters
                     /\ \A i \in 1..(colon - 1) : url[i] \in SchemeChars
        scheme    == IF hasScheme THEN Lower(SubSeq(url, 1, colon - 1)) ELSE << >>
        rest1     == IF hasScheme THEN SubSeq(url, colon + 1, Len(url)) ELSE url
        hasNetloc == Len(rest1) >= 2 /\ rest1[1] = "/" /\ rest1[2] = "/"
        delim     == IF hasNetloc THEN FindAny(rest1, {"/", "?", "#"}, 3) ELSE 0
        netlocEnd == IF delim = 0 THEN Len(rest1) ELSE delim - 1
        netloc    == IF hasNetloc THEN SubSeq(rest1, 3, netlocEnd) ELSE << >>
        rest2     == IF hasNetloc THEN SubSeq(rest1, netlocEnd + 1, Len(rest1))
                     ELSE rest1
        hash      == FindAny(rest2, {"#"}, 1)
        rest3     == IF hash = 0 THEN rest2 ELSE SubSeq(rest2, 1, hash - 1)
        fragment  == IF hash = 0 THEN << >> ELSE SubSeq(rest2, hash + 1, Len(rest2))
        qmark     == FindAny(rest3, {"?"}, 1)
        path      == IF qmark = 0 THEN rest3 ELSE SubSeq(rest3, 1, qmark - 1)
        query     == IF qmark = 0 THEN << >> ELSE SubSeq(rest3, qmark + 1, Len(rest3))
    IN  [scheme |-> scheme, netloc |-> netloc, fragment |-> fragment,
         path |-> path, query |-> query]

\* urllib.parse.quote(s, safe=''): unreserved characters stay, any other
\* character becomes %XX (the characters that occur in the ids of the model)
Unreserved == LowerLetters \cup UpperLetters \cup Digits \cup {"_", ".", "-", "~"}

PercentCode(c) ==
    CASE c = "/" -> <<"%", "2", "F">>
      [] c = ":" -> <<"%", "3", "A">>
      [] c = " " -> <<"%", "2", "0">>
      [] c = "%" -> <<"%", "2", "5">>
      [] c = "=" -> <<"%", "3", "D">>
      [] OTHER   -> <<"%", "3", "F">>

RECURSIVE Quote(_)
Quote(str) ==
    IF str = << >> THEN << >>
    ELSE (IF Head(str) \in Unreserved THEN <<Head(str)>> ELSE PercentCode(Head(str)))
         \o Quote(Tail(str))

\* ------------------------------------------------------------------------
\* TextCleaner (processors/text_cleaner.py: clean;
\*              processing/text_cleaner.py: clean_text)
\* ------------------------------------------------------------------------
MaxText == 5       \* longest raw text drawn, in characters

\* Texts are sequences of code points.  The characters drawn: "A", space,
\* newline, tab, "<" and ">".
Space == 32
Newline == 10
Tab == 9
Lt == 60
Gt == 62
CapitalA == 65
\* the characters \s matches and str.strip() removes (below 256)
Whitespace == {9, 10, 11, 12, 13, 28, 29, 30, 31, 32, 133, 160}

\* first position >= i of s that ends the run of characters of chars
RECURSIVE SkipRun(_, _, _)
SkipRun(s, i, chars) ==
    IF i <= Len(s) /\ s[i] \in chars THEN SkipRun(s, i + 1, chars) ELSE i

\* re.sub(r' +', ' ', s) with chars = {Space} and re.sub(r'\s+', ' ', s) with
\* chars = Whitespace, scanning from position i
RECURSIVE SubRuns(_, _, _)
SubRuns(s, i, chars) ==
    IF i > Len(s) THEN << >>
    ELSE IF s[i] \in chars
    THEN <<Space>> \o SubRuns(s, SkipRun(s, i, chars), chars)
    ELSE <<s[i]>> \o SubRuns(s, i + 1, chars)

\* re.sub(r'\n\s*\n', '\n\n', s), scanning from position i: at a newline the
\* greedy \s* runs to the last newline of the whitespace that follows
RECURSIVE SubBlankLines(_, _)
SubBlankLines(s, i) ==
    IF i > Len(s) THEN << >>
    ELSE IF s[i] = Newline
    THEN LET stop == SkipRun(s, i + 1, Whitespace)
             ends == {j \in (i + 1)..(stop - 1) : s[j] = Newline}
         IN  IF ends = {} THEN <<Newline>> \o SubBlankLines(s, i + 1)
             ELSE <<Newline, Newline>>
                  \o SubBlankLines(s, 1 + CHOOSE j \in ends : \A k \in ends : k <= j)
    ELSE <<s[i]>> \o SubBlankLines(s, i + 1)

\* re.sub(r'<[^>]+>', ' ', s), scanning from position i: "<", at least one
\* character that is not ">", then ">"
RECURSIVE SubTags(_, _)
SubTags(s, i) ==
    IF i > Len(s) THEN << >>
    ELSE IF s[i] = Lt
    THEN LET closes == {j \in (i + 1)..Len(s) : s[j] = Gt}
             close  == IF closes = {} THEN 0
                       ELSE CHOOSE j \in closes : \A k \in closes : j <= k
         IN  IF close >= i + 2 THEN <<Space>> \o SubTags(s, close + 1)
             ELSE <<Lt>> \o SubTags(s, i + 1)
    ELSE <<s[i]>> \o SubTags(s, i + 1)

\* str.strip(): what lies between the first and the last character that is
\* not whitespace
Strip(s) ==
    LET keep == {i \in 1..Len(s) : s[i] \notin Whitespace}
    IN  IF keep = {} THEN << >>
        ELSE SubSeq(s, CHOOSE i \in keep : \A j \in keep : i <= j,
                       CHOOSE i \in keep : \A j \in keep : j <= i)

\* s.split('\n'): the lines, one more than the newlines
RECURSIVE SplitLines(_, _)
SplitLines(s, line) ==
    IF s = << >> THEN <<line>>
    ELSE IF Head(s) = Newline THEN <<line>> \o SplitLines(Tail(s), << >>)
    ELSE SplitLines(Tail(s), Append(line, Head(s)))

\* "\n".join(lines)
RECURSIVE JoinLines(_)
JoinLines(lines) ==
    IF Len(lines) = 1 THEN lines[1]
    ELSE lines[1] \o <<Newline>> \o JoinLines(Tail(lines))

\* processors.TextCleaner(remove_patterns=None, to_lowercase).clean(text)
Clean(text, to_lowercase) ==
    LET lines    == SplitLines(SubBlankLines(SubRuns(text, 1, {Space}), 1), << >>)
        stripped == Strip(JoinLines([i \in 1..Len(lines) |-> Strip(lines[i])]))
    IN  IF to_lowercase
        THEN [i \in 1..Len(stripped) |->
                IF CapitalA <= stripped[i] /\ stripped[i] <= CapitalA + 25
                THEN stripped[i] + 32 ELSE stripped[i]]
        ELSE stripped

\* processing.TextCleaner(remove_html, normalize_whitespace=True)
\*     .clean_text(text)
CleanText(text, remove_html) ==
    LET untagged == IF remove_html THEN SubTags(text, 1) ELSE text
    IN  Strip(SubRuns(untagged, 1, Whitespace))

IdleCleanVars ==
    /\ rawText = << >>
    /\ cleaned = [text |-> << >>, by |-> "none", flag |-> FALSE]

\* cleaner.clean(rawText) on a cleaner built with this to_lowercase
CallClean(to_lowercase) ==
    /\ cleaned' = [text |-> Clean(rawText, to_lowercase), by |-> "clean",
                   flag |-> to_lowercase]
    /\ UNCHANGED rawText
    /\ UNCHANGED <<splitVars, storeVars, indexVars>>

\* cleaner.clean_text(rawText) on a cleaner built with this remove_html
CallCleanText(remove_html) ==
    /\ cleaned' = [text |-> CleanText(rawText, remove_html), by |-> "clean_text",
                   flag |-> remove_html]
    /\ UNCHANGED rawText
    /\ UNCHANGED <<splitVars, storeVars, indexVars>>

\* ------------------------------------------------------------------------
\* FileSystemDocumentStore
\* ------------------------------------------------------------------------
PathPartMax == 100

ExtPdf  == <<".", "p", "d", "f">>
ExtHtm  == <<".", "h", "t", "m">>
ExtHtml == <<".", "h", "t", "m", "l">>
ExtBin  == <<".", "b", "i", "n">>

\* the extension chosen by sniffing the end of the lower-cased id
StorageExt(document_id) ==
    IF EndsWith(Lower(document_id), ExtPdf) THEN ExtPdf
    ELSE IF EndsWith(Lower(document_id), ExtHtm)
            \/ EndsWith(Lower(document_id), ExtHtml) THEN ExtHtml
    ELSE ExtBin

\* sanitized_id = f"{domain}/{path_part}" with its two parts kept apart
SanitizedDomain(document_id) ==
    ReplaceChar(UrlParse(document_id).netloc, ":", "_")

SanitizedPathPart(document_id) ==
    PySlice(ReplaceChar(Quote(StripSlash(UrlParse(document_id).path)), "%", "_"),
            0, PathPartMax)

\* self.base_path / f"{sanitized_id}{ext}" as pathlib joins it: a right-hand
\* side that starts with "/" replaces the base; "." components are dropped,
\* ".." components are kept.
ComputeStoragePath(document_id) ==
    LET domain == SanitizedDomain(document_id)
        name   == SanitizedPathPart(document_id) \o StorageExt(document_id)
    IN  IF domain = << >>
        THEN [anchor |-> "root", parts |-> <<name>>]
        ELSE IF domain = <<".">>
        THEN [anchor |-> "base_path", parts |-> <<name>>]
        ELSE [anchor |-> "base_path", parts |-> <<domain, name>>]

\* the ids the model hands to the store: "http://a.c/x", "http://a.c/x.html"
StoreIds ==
    { <<"h","t","t","p",":","/","/","a",".","c","/","x">>,
      <<"h","t","t","p",":","/","/","a",".","c","/","x",".","h","t","m","l">> }

\* _get_storage_path is a function of the id alone: the store of the model
\* computes it once per id, when it is constructed, and looks it up afterwards
StoragePathTable == [id \in StoreIds |-> ComputeStoragePath(id)]
StoragePath(document_id) == stPaths[document_id]

\* pathlib's PurePath.suffix of the file name
PathSuffix(path) ==
    LET name == path.parts[Len(path.parts)]
        dot  == RFind(name, ".")
    IN  IF 1 < dot /\ dot < Len(name) THEN SubSeq(name, dot, Len(name)) ELSE << >>

\* --- values ---
StrValue(codepoints) == [v |-> codepoints, t |-> "str"]
BytesValue(bytes)    == [v |-> bytes, t |-> "bytes"]
NoValue              == [v |-> << >>, t |-> "none"]

NoMeta        == [d |-> << >>, some |-> FALSE]
MetaDict(d)   == [d |-> d, some |-> TRUE]
\* "if metadata:"
MetaTruthy(m) == m.some /\ DOMAIN m.d # {}

\* str.encode('utf-8') for code points below 2048
RECURSIVE Utf8Encode(_)
Utf8Encode(cps) ==
    IF cps = << >> THEN << >>
    ELSE (IF Head(cps) < 128 THEN <<Head(cps)>>
          ELSE <<192 + (Head(cps) \div 64), 128 + (Head(cps) % 64)>>)
         \o Utf8Encode(Tail(cps))

\* bytes.decode('utf-8') for one- and two-byte sequences
RECURSIVE Utf8Decode(_)
Utf8Decode(bytes) ==
    IF bytes = << >> THEN [v |-> << >>, ok |-> TRUE]
    ELSE IF Head(bytes) < 128
    THEN LET rest == Utf8Decode(Tail(bytes))
         IN  [v |-> <<Head(bytes)>> \o rest.v, ok |-> rest.ok]
    ELSE IF /\ Head(bytes) >= 194 /\ Head(bytes) < 224 /\ Len(bytes) >= 2
            /\ bytes[2] >= 128 /\ bytes[2] < 192
    THEN LET rest == Utf8Decode(Tail(Tail(bytes)))
         IN  [v |-> <<(Head(bytes) - 192) * 64 + (bytes[2] - 128)>> \o rest.v,
              ok |-> rest.ok]
    ELSE [v |-> << >>, ok |-> FALSE]

\* text-mode write (newline=None): "\n" becomes os.linesep
OsLinesep == <<10>>
RECURSIVE WriteNewlines(_)
WriteNewlines(cps) ==
    IF cps = << >> THEN << >>
    ELSE (IF Head(cps) = 10 THEN OsLinesep ELSE <<Head(cps)>>)
         \o WriteNewlines(Tail(cps))

\* text-mode read (newline=None): "\r\n" and "\r" become "\n"
RECURSIVE ReadNewlines(_)
ReadNewlines(cps) ==
    IF cps = << >> THEN << >>
    ELSE IF Head(cps) = 13 /\ Len(cps) >= 2 /\ cps[2] = 10
    THEN <<10>> \o ReadNewlines(Tail(Tail(cps)))
    ELSE IF Head(cps) = 13 THEN <<10>> \o ReadNewlines(Tail(cps))
    ELSE <<Head(cps)>> \o ReadNewlines(Tail(cps))

\* the bytes f.write(content) leaves in the file
FileBytesOf(content) ==
    IF content.t = "bytes" THEN content.v
    ELSE Utf8Encode(WriteNewlines(content.v))

\* The text of a sidecar.  json.dump of a dict with string keys and scalar
\* values writes one member per key, in ASCII.  A text cut short is valid
\* UTF-8 that json.load rejects with JSONDecodeError; bytes that are not
\* valid UTF-8 make the text-mode read under json.load raise
\* UnicodeDecodeError.
JsonDump(d) ==
    [complete |-> TRUE, members |-> {<<k, d[k]>> : k \in DOMAIN d}, utf8 |-> TRUE]
JsonTruncated == [complete |-> FALSE, members |-> {}, utf8 |-> TRUE]
\* json.load returns a dict
JsonParses(text) == text.utf8 /\ text.complete
JsonLoad(text) ==
    [k \in {m[1] : m \in text.members} |->
        (CHOOSE m \in text.members : m[1] = k)[2]]

\* --- files ---
Absent          == [bytes |-> << >>, exists |-> FALSE]
FileOf(bytes)   == [bytes |-> bytes, exists |-> TRUE]
NoSidecar       == [text |-> JsonTruncated, exists |-> FALSE]
SidecarOf(text) == [text |-> text, exists |-> TRUE]

\* --- retrieve_document: returns a dict, None, or raises DataStorageError ---
NotFound == [content |-> NoValue, metadata |-> NoMeta, kind |-> "notfound"]
StorageError == [content |-> NoValue, metadata |-> NoMeta, kind |-> "error"]
Found(content, metadata) ==
    [content |-> content, metadata |-> metadata, kind |-> "found"]


\* is_binary = storage_path.suffix == '.bin' or storage_path.suffix == '.pdf'
STIsBinary(path) == PathSuffix(path) = ExtBin \/ PathSuffix(path) = ExtPdf

\* The sidecar step of retrieve_document.  metadata stays None when there
\* is no sidecar, and when json.load raises JSONDecodeError (the except
\* clause of its own returns the content with None).  An IOError of the
\* open or the read (fault "read_meta") and the UnicodeDecodeError of a
\* sidecar that is not UTF-8 end the call in DataStorageError.
STReadMetadata(entry, fault) ==
    IF ~entry.meta.exists THEN [metadata |-> NoMeta, error |-> FALSE]
    ELSE IF fault = "read_meta" \/ ~entry.meta.text.utf8
    THEN [metadata |-> NoMeta, error |-> TRUE]
    ELSE IF ~JsonParses(entry.meta.text)
    THEN [metadata |-> NoMeta, error |-> FALSE]
    ELSE [metadata |-> MetaDict(JsonLoad(entry.meta.text)), error |-> FALSE]

\* retrieve_document: None when the content file is missing; else the content
\* read in the mode the suffix selects, with the sidecar's dict or None.
\* fault: "none"; "read" (the open or the read of the content file raises
\* IOError); "read_meta".  Every error but JSONDecodeError ends the call in
\* DataStorageError.
STRetrieve(files, document_id, fault) ==
    LET path  == StoragePath(document_id)
        entry == files[path]
        text  == Utf8Decode(entry.data.bytes)
        md    == STReadMetadata(entry, fault)
    IN  IF ~entry.data.exists THEN NotFound
        ELSE IF fault = "read" THEN StorageError
        ELSE IF ~STIsBinary(path) /\ ~text.ok THEN StorageError
        ELSE IF md.error THEN StorageError
        ELSE Found(IF STIsBinary(path) THEN BytesValue(entry.data.bytes)
                   ELSE StrValue(ReadNewlines(text.v)),
                   md.metadata)


\* "if metadata:" guards the sidecar write; otherwise the sidecar is untouched
STSidecarAfterSave(old, metadata) ==
    IF MetaTruthy(metadata) THEN SidecarOf(JsonDump(metadata.d)) ELSE old

\* fault: "none"; "open" (open of the content file raises); "write" (the
\* content write raises after the file was truncated); "meta" (writing the
\* sidecar raises after it was truncated)
STSave(files, document_id, content, metadata, fault) ==
    LET path  == StoragePath(document_id)
        entry == files[path]
    IN  CASE fault = "open"  -> files
          [] fault = "write" ->
                [files EXCEPT ![path] = [entry EXCEPT !.data = FileOf(<< >>)]]
          [] fault = "meta"  ->
                [files EXCEPT ![path] =
                    [meta |-> SidecarOf(JsonTruncated),
                     data |-> FileOf(FileBytesOf(content))]]
          [] OTHER ->
                [files EXCEPT ![path] =
                    [meta |-> STSidecarAfterSave(entry.meta, metadata),
                     data |-> FileOf(FileBytesOf(content))]]

\* --- delete_document ---
\* returns the 'deleted' flag when the file is not there
STDeleteAbsentResultFlag == FALSE

\* "return True" when the file is not there
STDeleteAbsentResult == TRUE

\* fault: "none"; "unlink" (unlinking the content file raises OSError);
\* "unlink_meta" (unlinking the sidecar raises OSError)
STDeleteResult(files, document_id, fault) ==
    LET entry == files[StoragePath(document_id)]
    IN  IF ~entry.data.exists THEN STDeleteAbsentResult
        ELSE fault = "none"

STDelete(files, document_id, fault) ==
    LET path  == StoragePath(document_id)
        entry == files[path]
    IN  IF ~entry.data.exists \/ fault = "unlink" THEN files
        ELSE IF fault = "unlink_meta"
        THEN [files EXCEPT ![path] = [entry EXCEPT !.data = Absent]]
        ELSE [files EXCEPT ![path] = [meta |-> NoSidecar, data |-> Absent]]

\* --- inputs of the store model ---
\* "a", "e-acute CR" as text; b"a" and b"\xff" as bytes
StoreContents ==
    { StrValue(<<97>>), StrValue(<<233, 13>>),
      BytesValue(<<97>>), BytesValue(<<255>>) }

StoreMetadata ==
    { NoMeta, MetaDict(<< >>), MetaDict([k |-> 1]), MetaDict([k |-> 2]) }

\* --- history kept for the properties ---
\* "saved": the last change of the entry was a save that returned; "deleted":
\* it was a delete that returned True (deletes counts them, up to 2);
\* "broken": it was a save that raised or a delete that returned False.
Untouched ==
    [content |-> NoValue, metadata |-> NoMeta, state |-> "none", deletes |-> 0]
Saved(content, metadata) ==
    [content |-> content, metadata |-> metadata, state |-> "saved", deletes |-> 0]
Deleted(n) ==
    [content |-> NoValue, metadata |-> NoMeta, state |-> "deleted", deletes |-> n]
Broken ==
    [content |-> NoValue, metadata |-> NoMeta, state |-> "broken", deletes |-> 0]

NoOp == [id |-> << >>, ok |-> TRUE, op |-> "none", result |-> NotFound]

\* --- a save and a retrieve side by side ---
\* save: "idle"; "opened" (the content file is open for writing, truncated);
\* "written" (the content is written, the sidecar is still to come);
\* "meta_opened" (the sidecar is open for writing, truncated).
\* read: "idle"; "found" (storage_path.exists() was true); "opened" (the
\* content file is open and f.read() has sized its buffer; data holds the
\* bytes read so far, buf the size of the buffer); "content" (f.read() has
\* returned, the sidecar is still to come).
NoRace ==
    [read |-> [pc |-> "idle", data |-> Absent, buf |-> 0],
     save |-> [content |-> NoValue, metadata |-> NoMeta, pc |-> "idle",
               new |-> NotFound],
     stored |-> NotFound, allowed |-> {}, saves |-> 0]

InitStoreVars ==
    /\ stPaths = StoragePathTable
    /\ fs = [p \in {stPaths[id] : id \in DOMAIN stPaths} |->
                [meta |-> NoSidecar, data |-> Absent]]
    /\ stHist = [p \in {stPaths[id] : id \in DOMAIN stPaths} |-> Untouched]
    /\ stOp = NoOp
    /\ race = NoRace

\* save_document(document_id, content, metadata)
SaveDocument(document_id, content, metadata, fault) ==
    /\ fault = "meta" => MetaTruthy(metadata)
    /\ fs' = STSave(fs, document_id, content, metadata, fault)
    /\ stHist' = [stHist EXCEPT ![StoragePath(document_id)] =
                    CASE fault = "none" -> Saved(content, metadata)
                      [] fault = "open" -> @
                      [] OTHER          -> Broken]
    /\ stOp' = [id |-> document_id, ok |-> fault = "none", op |-> "save",
                result |-> NotFound]
    /\ UNCHANGED <<stPaths, race, splitVars, cleanVars, indexVars>>

\* retrieve_document(document_id)
RetrieveDocument(document_id, fault) ==
    /\ fault = "read" => fs[StoragePath(document_id)].data.exists
    /\ fault = "read_meta" => /\ fs[StoragePath(document_id)].data.exists
                              /\ fs[StoragePath(document_id)].meta.exists
    /\ stOp' = [id |-> document_id,
                ok |-> STRetrieve(fs, document_id, fault).kind # "error",
                op |-> "retrieve",
                result |-> STRetrieve(fs, document_id, fault)]
    /\ UNCHANGED <<fs, stHist>>
    /\ UNCHANGED <<stPaths, race, splitVars, cleanVars, indexVars>>

\* delete_document(document_id)
DeleteDocument(document_id, fault) ==
    /\ fault = "unlink" => fs[StoragePath(document_id)].data.exists
    /\ fault = "unlink_meta" => /\ fs[StoragePath(document_id)].data.exists
                                /\ fs[StoragePath(document_id)].meta.exists
    /\ fs' = STDelete(fs, document_id, fault)
    /\ stHist' = [stHist EXCEPT ![StoragePath(document_id)] =
                    IF STDeleteResult(fs, document_id, fault)
                    THEN Deleted(IF @.state = "deleted" THEN 2 ELSE 1)
                    ELSE IF fault = "unlink" THEN @ ELSE Broken]
    /\ stOp' = [id |-> document_id,
                ok |-> STDeleteResult(fs, document_id, fault),
                op |-> "delete",
                result |-> NotFound]
    /\ UNCHANGED <<stPaths, race, splitVars, cleanVars, indexVars>>

\* The sidecar of a stored entry is damaged from outside the store: cut
\* short ("cut"), or overwritten with bytes that are not UTF-8 ("not_utf8",
\* e.g. b'\xff').
DamageSidecar(document_id, kind) ==
    /\ fs[StoragePath(document_id)].data.exists
    /\ fs[StoragePath(document_id)].meta.exists
    /\ fs' = [fs EXCEPT ![StoragePath(document_id)].meta =
                SidecarOf([complete |-> FALSE, members |-> {},
                           utf8 |-> kind = "cut"])]
    /\ stHist' = [stHist EXCEPT ![StoragePath(document_id)] = Broken]
    /\ stOp' = [id |-> document_id, ok |-> TRUE, op |-> "damage",
                result |-> NotFound]
    /\ UNCHANGED <<stPaths, race, splitVars, cleanVars, indexVars>>

\* --- ids that differ in what _get_storage_path keeps of them ---
\* plain "http://a.c/x"; the same with another scheme, with a query string,
\* with a fragment, on another host; two ids whose encoded paths agree on
\* the first PathPartMax characters ("=" is encoded as three, "%3D") and
\* differ in the next one; a bare file name, "x.pdf"; and an id whose
\* authority is ".."
Ids ==
    LET http  == <<"h", "t", "t", "p", ":", "/", "/">>
        https == <<"h", "t", "t", "p", "s", ":", "/", "/">>
        hostA == <<"a", ".", "c">>
        hostB == <<"b", ".", "c">>
        long  == [i \in 1..(PathPartMax \div 3) |-> "="] \o <<"a">>
    IN  [scheme   |-> https \o hostA \o <<"/", "x">>,
         fragment |-> http \o hostA \o <<"/", "x", "#", "f">>,
         query    |-> http \o hostA \o <<"/", "x", "?", "q">>,
         plain    |-> http \o hostA \o <<"/", "x">>,
         host     |-> http \o hostB \o <<"/", "x">>,
         longX    |-> http \o hostA \o <<"/">> \o long \o <<"x">>,
         longY    |-> http \o hostA \o <<"/">> \o long \o <<"y">>,
         bare     |-> <<"x", ".", "p", "d", "f">>,
         dotdot   |-> http \o <<".", ".", "/", "x">>]

\* --- save_document and retrieve_document step by step ---
MaxSaves == 3      \* save_document calls of one behaviour

\* the two callers use the plain id
\* save_document up to the open of the content file, which truncates it
SaveOpen(content, metadata) ==
    /\ race.save.pc = "idle"
    /\ race.saves < MaxSaves
    /\ \E new \in {STRetrieve(STSave(fs, Ids.plain, content, metadata, "none"),
                              Ids.plain, "none")} :
          race' = [race EXCEPT
                      !.save = [content |-> content, metadata |-> metadata,
                                pc |-> "opened", new |-> new],
                      !.saves = @ + 1,
                      !.allowed = IF race.read.pc = "idle" THEN @
                                  ELSE @ \cup {new}]
    /\ fs' = [fs EXCEPT ![StoragePath(Ids.plain)].data = FileOf(<< >>)]
    /\ UNCHANGED <<stPaths, stHist, stOp>>
    /\ UNCHANGED <<splitVars, cleanVars, indexVars>>

\* f.write(content) and the close; with no metadata the call returns
SaveWrite ==
    /\ race.save.pc = "opened"
    /\ fs' = [fs EXCEPT ![StoragePath(Ids.plain)].data =
                            FileOf(FileBytesOf(race.save.content))]
    /\ IF MetaTruthy(race.save.metadata)
       THEN /\ race' = [race EXCEPT !.save.pc = "written"]
            /\ UNCHANGED <<stHist, stOp>>
       ELSE /\ race' = [race EXCEPT !.save = NoRace.save,
                                    !.stored = race.save.new]
            /\ stHist' = [stHist EXCEPT ![StoragePath(Ids.plain)] =
                            Saved(race.save.content, race.save.metadata)]
            /\ stOp' = [id |-> Ids.plain, ok |-> TRUE, op |-> "save",
                        result |-> NotFound]
    /\ UNCHANGED stPaths
    /\ UNCHANGED <<splitVars, cleanVars, indexVars>>

\* open(meta_path, 'w'), which truncates the sidecar
SaveMetaOpen ==
    /\ race.save.pc = "written"
    /\ fs' = [fs EXCEPT ![StoragePath(Ids.plain)].meta = SidecarOf(JsonTruncated)]
    /\ race' = [race EXCEPT !.save.pc = "meta_opened"]
    /\ UNCHANGED <<stPaths, stHist, stOp>>
    /\ UNCHANGED <<splitVars, cleanVars, indexVars>>

\* json.dump(metadata, mf) and the close; the call returns
SaveMetaDump ==
    /\ race.save.pc = "meta_opened"
    /\ fs' = [fs EXCEPT ![StoragePath(Ids.plain)].meta =
                            SidecarOf(JsonDump(race.save.metadata.d))]
    /\ race' = [race EXCEPT !.save = NoRace.save, !.stored = race.save.new]
    /\ stHist' = [stHist EXCEPT ![StoragePath(Ids.plain)] =
                    Saved(race.save.content, race.save.metadata)]
    /\ stOp' = [id |-> Ids.plain, ok |-> TRUE, op |-> "save", result |-> NotFound]
    /\ UNCHANGED stPaths
    /\ UNCHANGED <<splitVars, cleanVars, indexVars>>

\* retrieve_document up to "if not storage_path.exists(): return None"
RetrBegin ==
    /\ race.read.pc = "idle"
    /\ \E allowed \in {{race.stored} \cup (IF race.save.pc = "idle" THEN {}
                                           ELSE {race.save.new})} :
          IF fs[StoragePath(Ids.plain)].data.exists
          THEN /\ race' = [race EXCEPT !.read.pc = "found",
                                       !.allowed = allowed]
               /\ UNCHANGED stOp
          ELSE /\ race' = [race EXCEPT !.allowed = allowed]
               /\ stOp' = [id |-> Ids.plain, ok |-> TRUE, op |-> "retrieve",
                           result |-> NotFound]
    /\ UNCHANGED <<stPaths, fs, stHist>>
    /\ UNCHANGED <<splitVars, cleanVars, indexVars>>

\* open(storage_path, mode) and the start of f.read().  f.read() reads the
\* whole file (FileIO.readall): it takes the size of the file with fstat and
\* allocates size + 1 bytes, or 8192 when the file is empty, and then calls
\* read(2) until one call returns nothing.  The interpreter lock is released
\* around each of these calls, so a save of another thread runs between them.
RetrOpenContent ==
    /\ race.read.pc = "found"
    /\ \E size \in {Len(fs[StoragePath(Ids.plain)].data.bytes)} :
          race' = [race EXCEPT
                      !.read = [pc |-> "opened", data |-> FileOf(<< >>),
                                buf |-> IF size > 0 THEN size + 1 ELSE 8192]]
    /\ UNCHANGED <<stPaths, fs, stHist, stOp>>
    /\ UNCHANGED <<splitVars, cleanVars, indexVars>>

\* one read(2) of f.read(): it takes the bytes the file holds now from the
\* offset reached, as many as the buffer has room for; a full buffer grows
\* (by at least 8192 bytes); a call that returns nothing ends f.read() and
\* closes the file
RetrReadContent ==
    /\ race.read.pc = "opened"
    /\ \E file \in {fs[StoragePath(Ids.plain)].data.bytes},
          got \in {race.read.data.bytes} :
          \E n \in {IF Len(file) <= Len(got) THEN 0
                     ELSE IF Len(file) - Len(got) < race.read.buf - Len(got)
                     THEN Len(file) - Len(got)
                     ELSE race.read.buf - Len(got)} :
             race' = [race EXCEPT
                         !.read = IF n = 0
                                  THEN [pc |-> "content", data |-> FileOf(got),
                                        buf |-> 0]
                                  ELSE [pc |-> "opened",
                                        data |-> FileOf(got \o SubSeq(file,
                                                    Len(got) + 1, Len(got) + n)),
                                        buf |-> IF Len(got) + n >= race.read.buf
                                                THEN race.read.buf + 8192
                                                ELSE race.read.buf]]
    /\ UNCHANGED <<stPaths, fs, stHist, stOp>>
    /\ UNCHANGED <<splitVars, cleanVars, indexVars>>

\* the sidecar, if it exists, is read and parsed; the call returns the
\* content read before with the metadata read now.  The sidecars written
\* here ({"k": 1}, {"k": 2}) have one length, so the first read(2) of the
\* sidecar returns the whole text or, after the truncating open of a save,
\* nothing, and the next one returns nothing: the read is one step.
RetrReadMeta ==
    /\ race.read.pc = "content"
    /\ \E result \in
          {STRetrieve([fs EXCEPT ![StoragePath(Ids.plain)].data = race.read.data],
                      Ids.plain, "none")} :
          stOp' = [id |-> Ids.plain, ok |-> result.kind # "error",
                   op |-> "retrieve", result |-> result]
    /\ race' = [race EXCEPT !.read = NoRace.read]
    /\ UNCHANGED <<stPaths, fs, stHist>>
    /\ UNCHANGED <<splitVars, cleanVars, indexVars>>

\* ------------------------------------------------------------------------
\* VectorDatabaseManager
\* ------------------------------------------------------------------------
MaxBatch == 2      \* longest list of documents passed to add_documents
MaxResults == 2    \* largest n_results passed to search

\* Python values of a document dict: the type tag and the value as a
\* sequence of strings (a str or an int is a one-element sequence)
StrVal(x)   == [v |-> <<x>>, t |-> "str"]
IntVal(x)   == [v |-> <<x>>, t |-> "int"]
ListVal(xs) == [v |-> xs, t |-> "list"]
NoneVal     == [v |-> << >>, t |-> "none"]

\* doc.get(key)
DictGet(doc, key) == IF key \in DOMAIN doc THEN doc[key] ELSE NoneVal

\* truth value of a Python value ("not doc_id", "not text")
Truthy(val) ==
    CASE val.t = "none" -> FALSE
      [] val.t = "str"  -> val.v[1] # ""
      [] val.t = "int"  -> val.v[1] # "0"
      [] OTHER          -> Len(val.v) > 0

\* str(doc_id)
PyStr(val) ==
    CASE val.t = "none" -> "None"
      [] val.t \in {"str", "int"} -> val.v[1]
      [] OTHER -> "list"

\* isinstance(v, (str, int, float, bool))
IsScalar(val) == val.t \in {"str", "int", "float", "bool"}

TextKey == "cleaned_text"
IdKey == "url"

\* sorted(list(tags)) for the tags of the model, ordered as Python orders them
TagRank(tag) == CASE tag = "a" -> 1 [] tag = "b" -> 2 [] OTHER -> 3
RECURSIVE InsertSorted(_, _)
InsertSorted(sorted, x) ==
    IF sorted = << >> THEN <<x>>
    ELSE IF TagRank(x) < TagRank(Head(sorted)) THEN <<x>> \o sorted
    ELSE <<Head(sorted)>> \o InsertSorted(Tail(sorted), x)
RECURSIVE SortedTags(_)
SortedTags(tags) ==
    IF tags = << >> THEN << >>
    ELSE InsertSorted(SortedTags(Tail(tags)), Head(tags))
\* ",".join(...): the joined string, kept as its parts
JoinedVal(xs) == [v |-> <<"join">> \o xs, t |-> "str"]

\* the metadata add_documents builds for one document
IXMetadata(doc) ==
    LET kept   == {k \in DOMAIN doc : k \notin {TextKey, IdKey} /\ IsScalar(doc[k])}
        scalar == [k \in kept |-> doc[k]]
    IN  IF "tags" \in DOMAIN doc /\ doc["tags"].t = "list"
        THEN DictPut(scalar, "tags", JoinedVal(SortedTags(doc["tags"].v)))
        ELSE scalar

\* the skip test looks at the id only
IXSkipsIdOnly(doc) == ~Truthy(DictGet(doc, IdKey))

\* "if not doc_id or not text: ... continue"
IXSkips(doc) == ~Truthy(DictGet(doc, IdKey)) \/ ~Truthy(DictGet(doc, TextKey))

\* SentenceTransformer.encode for the texts of the model
Embed(text) ==
    CASE text = StrVal("t1") -> <<1, 0>>
      [] text = StrVal("t2") -> <<0, 1>>
      [] OTHER               -> <<1, 1>>

\* the rows add_documents hands to collection.upsert, in document order
RECURSIVE IXRows(_)
IXRows(docs) ==
    IF docs = << >> THEN << >>
    ELSE IF IXSkips(Head(docs)) THEN IXRows(Tail(docs))
    ELSE << [document  |-> DictGet(Head(docs), TextKey),
             id        |-> PyStr(DictGet(Head(docs), IdKey)),
             metadata  |-> IXMetadata(Head(docs)),
             embedding |-> Embed(DictGet(Head(docs), TextKey))] >>
         \o IXRows(Tail(docs))

\* number of "Skipping document ..." warnings one call logs
IXSkipCount(docs) == Cardinality({i \in 1..Len(docs) : IXSkips(docs[i])})

PositionsOf(coll, id) == {i \in 1..Len(coll) : coll[i].id = id}

\* an add that never replaces: the row is appended
UpsertRowAppend(coll, row) == Append(coll, row)

\* collection.upsert of one row: replace the record of that id, or add it
UpsertRow(coll, row) ==
    IF PositionsOf(coll, row.id) = {} THEN Append(coll, row)
    ELSE [i \in 1..Len(coll) |-> IF coll[i].id = row.id THEN row ELSE coll[i]]

RECURSIVE UpsertRows(_, _)
UpsertRows(coll, rows) ==
    IF rows = << >> THEN coll
    ELSE UpsertRows(UpsertRow(coll, Head(rows)), Tail(rows))

\* the backend refuses a batch that names an id twice (DuplicateIDError)
HasDuplicateIds(rows) ==
    \E i, j \in 1..Len(rows) : i # j /\ rows[i].id = rows[j].id

\* outcome of add_documents for the rows it built: "returned" or
\* "RetrievalError".  fault is "none", "encode" (embedding_model.encode raises
\* on a text of the batch) or "upsert" (collection.upsert raises), both inside
\* the try block.  With no rows the call returns before the try block.
IXAddOutcome(rows, fault) ==
    IF rows = << >> THEN "returned"
    ELSE IF fault # "none" \/ HasDuplicateIds(rows) THEN "RetrievalError"
    ELSE "returned"

\* the collection after add_documents
IXAdd(coll, rows, fault) ==
    IF IXAddOutcome(rows, fault) = "returned" THEN UpsertRows(coll, rows) ELSE coll

\* --- search ---
NoFilter == [some |-> FALSE, key |-> "", value |-> NoneVal]
WhereEquals(key, value) == [some |-> TRUE, key |-> key, value |-> value]

\* a filter that looks only for the presence of the key
MatchesFilterKeyOnly(record, filter) ==
    ~filter.some \/ filter.key \in DOMAIN record.metadata

\* where={key: value}: the record's metadata has that value under the key
MatchesFilter(record, filter) ==
    ~filter.some
    \/ (filter.key \in DOMAIN record.metadata
        /\ record.metadata[filter.key] = filter.value)

\* squared L2 distance of two vectors of the same length
RECURSIVE Distance(_, _)
Distance(a, b) ==
    IF a = << >> THEN 0
    ELSE (Head(a) - Head(b)) * (Head(a) - Head(b)) + Distance(Tail(a), Tail(b))

\* hits ordered by distance, earlier records first among equals
RECURSIVE InsertHit(_, _)
InsertHit(hits, hit) ==
    IF hits = << >> THEN <<hit>>
    ELSE IF hit.distance < Head(hits).distance THEN <<hit>> \o hits
    ELSE <<Head(hits)>> \o InsertHit(Tail(hits), hit)

RECURSIVE RankHits(_, _, _)
RankHits(coll, query, filter) ==
    IF coll = << >> THEN << >>
    ELSE LET first == coll[1]
             rest  == RankHits(Tail(coll), query, filter)
         IN  IF MatchesFilter(first, filter)
             THEN LET hit == [document |-> first.document,
                              id       |-> first.id,
                              metadata |-> first.metadata,
                              distance |-> Distance(first.embedding, query)]
                  IN  IF rest = << >> \/ hit.distance <= Head(rest).distance
                      THEN <<hit>> \o rest
                      ELSE <<Head(rest)>> \o InsertHit(Tail(rest), hit)
             ELSE rest

\* a query that returns every matching record, whatever n_results is
QueryResultsUnbounded(coll, query, n_results, filter) ==
    LET ranked == RankHits(coll, query, filter)
    IN  [ids       |-> [i \in 1..Len(ranked) |-> ranked[i].id],
         distances |-> [i \in 1..Len(ranked) |-> ranked[i].distance],
         metadatas |-> [i \in 1..Len(ranked) |-> ranked[i].metadata],
         documents |-> [i \in 1..Len(ranked) |-> ranked[i].document]]

\* collection.query(query_embeddings, n_results, where, include): parallel
\* lists over the n_results nearest matching records
QueryResults(coll, query, n_results, filter) ==
    LET ranked == PySlice(RankHits(coll, query, filter), 0, n_results)
    IN  [ids       |-> [i \in 1..Len(ranked) |-> ranked[i].id],
         distances |-> [i \in 1..Len(ranked) |-> ranked[i].distance],
         metadatas |-> [i \in 1..Len(ranked) |-> ranked[i].metadata],
         documents |-> [i \in 1..Len(ranked) |-> ranked[i].document]]

\* entries that take their distance from the other end of the list
IXFormatMispaired(results) ==
    [i \in 1..Len(results.ids) |->
        [document |-> results.documents[i],
         id       |-> results.ids[i],
         metadata |-> results.metadatas[i],
         distance |-> results.distances[Len(results.ids) + 1 - i]]]

\* the loop over ids: entry i takes position i of each of the four lists
IXFormat(results) ==
    [i \in 1..Len(results.ids) |->
        [document |-> results.documents[i],
         id       |-> results.ids[i],
         metadata |-> results.metadatas[i],
         distance |-> results.distances[i]]]

\* the list search returns when the query does not raise
IXSearch(coll, query_text, n_results, filter) ==
    IXFormat(QueryResults(coll, Embed(query_text), n_results, filter))

\* an exception inside search that is swallowed
IXSearchOutcomeSwallowed(raised) == "returned"

\* except Exception: raise RetrievalError
IXSearchOutcome(raised) == IF raised THEN "RetrievalError" ELSE "returned"

\* --- inputs of the index model ---
\* the catalogue of document dicts; a batch names them by position
IndexDocs ==
    << [tags |-> ListVal(<<"b", "a">>), url |-> StrVal("d1#0"),
        cleaned_text |-> StrVal("t1"), parent_document_id |-> StrVal("d1")],
       [url |-> StrVal("d1#0"), cleaned_text |-> StrVal("t2"),
        parent_document_id |-> StrVal("d1"), sequence_number |-> IntVal("0")],
       [url |-> IntVal("7"), cleaned_text |-> StrVal("t1"),
        embedding |-> ListVal(<<"0", "1">>), parent_document_id |-> StrVal("d2"),
        sections |-> ListVal(<<"x">>)],
       [cleaned_text |-> StrVal("t1"), parent_document_id |-> StrVal("d1")],
       [url |-> StrVal("7"), parent_document_id |-> StrVal("d2")],
       [url |-> StrVal("7"), cleaned_text |-> StrVal("t2"),
        parent_document_id |-> StrVal("d2")] >>

Batches == UNION { [1..n -> DOMAIN IndexDocs] : n \in 0..MaxBatch }

\* the list of dicts a batch stands for
DocsOf(batch) == [i \in 1..Len(batch) |-> IndexDocs[batch[i]]]

IndexIds == {"d1#0", "7", "None", ""}
IndexQueries == {StrVal("t1"), StrVal("t2")}
IndexFilters == {NoFilter, WhereEquals("parent_document_id", StrVal("d1"))}

\* --- history kept for the properties ---
NoRow == [document |-> NoneVal, id |-> "", metadata |-> << >>, embedding |-> << >>]
NeverUpserted == [row |-> NoRow, upserts |-> "never"]

RECURSIVE RecordUpserts(_, _)
RecordUpserts(hist, rows) ==
    IF rows = << >> THEN hist
    ELSE RecordUpserts(
            [hist EXCEPT ![Head(rows).id] =
                [row |-> Head(rows),
                 upserts |-> IF @.upserts = "never" THEN "once" ELSE "again"]],
            Tail(rows))

NoIndexOp ==
    [n |-> 0, hits |-> << >>, query |-> NoneVal, fault |-> "none",
     op |-> "none", filter |-> NoFilter, batch |-> << >>, outcome |-> "returned",
     skipped |-> 0]

\* --- two add_documents calls side by side ---
Callers == {"c1", "c2"}

NoAdds == [calls |-> [c \in Callers |-> [next |-> 1, pc |-> "idle", rows |-> << >>]],
           last  |-> [id \in IndexIds |-> "none"]]

\* embeddings kept in one place for all calls: a call upserts the vectors of
\* the other call when that one has embedded a list of the same length
AddRowsSharedEmbeddings(calls, c) ==
    LET o == CHOOSE x \in Callers : x # c
    IN  IF calls[o].pc = "upsert" /\ Len(calls[o].rows) = Len(calls[c].rows)
        THEN [i \in 1..Len(calls[c].rows) |->
                [calls[c].rows[i] EXCEPT !.embedding = calls[o].rows[i].embedding]]
        ELSE calls[c].rows

\* ids, embeddings, texts_to_embed, metadatas are locals of the call
AddRowsToUpsert(calls, c) == calls[c].rows

\* the loop over the documents, up to the early return or the try block
AddBegin(c, batch) ==
    /\ adds.calls[c].pc = "idle"
    /\ \E rows \in {[i \in 1..Len(batch) |->
                        [IXRows(DocsOf(batch))[i] EXCEPT !.embedding = << >>]]} :
         adds' = [adds EXCEPT !.calls[c] =
                    [next |-> 1,
                     pc   |-> IF rows = << >> THEN "returned" ELSE "embed",
                     rows |-> rows]]
    /\ UNCHANGED <<collection, ixHist, ixOp>>
    /\ UNCHANGED <<splitVars, cleanVars, storeVars>>

\* embeddings = self.embedding_model.encode(texts_to_embed).tolist()
AddEmbed(c) ==
    /\ adds.calls[c].pc = "embed"
    /\ LET rows == adds.calls[c].rows IN
       adds' = [adds EXCEPT
                  !.calls[c].pc = "upsert",
                  !.calls[c].rows =
                      [i \in 1..Len(rows) |->
                          [rows[i] EXCEPT !.embedding = Embed(rows[i].document)]]]
    /\ UNCHANGED <<collection, ixHist, ixOp>>
    /\ UNCHANGED <<splitVars, cleanVars, storeVars>>

\* self.collection.upsert(...): the backend refuses a list with a repeated id
\* and otherwise writes the records one at a time, each record whole
AddUpsert(c) ==
    /\ adds.calls[c].pc = "upsert"
    /\ \E rows \in {AddRowsToUpsert(adds.calls, c)} :
         IF HasDuplicateIds(rows)
         THEN /\ adds' = [adds EXCEPT !.calls[c].pc = "RetrievalError"]
              /\ UNCHANGED collection
         ELSE LET k == adds.calls[c].next IN
              /\ collection' = UpsertRow(collection, rows[k])
              /\ adds' = [adds EXCEPT
                            !.calls[c].pc = IF k = Len(rows) THEN "returned"
                                            ELSE "upsert",
                            !.calls[c].next = k + 1,
                            !.last[rows[k].id] = c]
    /\ UNCHANGED <<ixHist, ixOp>>
    /\ UNCHANGED <<splitVars, cleanVars, storeVars>>

InitIndexVars ==
    /\ collection = << >>
    /\ ixHist = [id \in IndexIds |-> NeverUpserted]
    /\ ixOp = NoIndexOp
    /\ adds = NoAdds

\* add_documents(documents), documents being DocsOf(batch); rows and outcome
\* are bound once, as the call computes them once
AddDocuments(batch, fault) ==
    \E rows \in {IXRows(DocsOf(batch))} :
    \E outcome \in {IXAddOutcome(rows, fault)} :
        /\ fault # "none" => rows # << >>
        /\ collection' = IXAdd(collection, rows, fault)
        /\ ixHist' = IF outcome = "returned" THEN RecordUpserts(ixHist, rows)
                     ELSE ixHist
        /\ ixOp' = [NoIndexOp EXCEPT !.op = "add",
                                     !.outcome = outcome,
                                     !.batch = batch,
                                     !.fault = fault,
                                     !.skipped = IXSkipCount(DocsOf(batch))]
        /\ UNCHANGED <<adds, splitVars, cleanVars, storeVars>>

\* search(query_text, n_results, filter_metadata).  fault is "none",
\* "encode" (embedding the query raises) or "query" (collection.query
\* raises), both inside the try block.  search does not look at n_results:
\* it hands it to collection.query.  A positive n_results is served as the
\* backend contract says; what the backend does with one that is not
\* positive is not fixed by the repository: it raises (fault "query") or
\* serves some number of records.
Search(query_text, n_results, filter, fault) ==
    /\ \E outcome \in {IXSearchOutcome(fault # "none")},
          served \in (IF n_results >= 1 THEN {n_results} ELSE 0..MaxResults) :
         ixOp' = [NoIndexOp EXCEPT
                    !.op = "search",
                    !.fault = fault,
                    !.query = query_text,
                    !.n = n_results,
                    !.filter = filter,
                    !.outcome = outcome,
                    !.hits = IF outcome = "returned"
                             THEN IXSearch(collection, query_text,
                                           served, filter)
                             ELSE << >>]
    /\ UNCHANGED <<collection, ixHist, adds>>
    /\ UNCHANGED <<splitVars, cleanVars, storeVars>>

\* ------------------------------------------------------------------------
\* Specifications
\* ------------------------------------------------------------------------
IdleStoreVars ==
    /\ stPaths = << >>
    /\ fs = << >>
    /\ stHist = << >>
    /\ stOp = NoOp
    /\ race = NoRace

IdleIndexVars ==
    /\ collection = << >>
    /\ ixHist = << >>
    /\ ixOp = NoIndexOp
    /\ adds = NoAdds

InitSplit == InitSplitVars /\ IdleCleanVars /\ IdleStoreVars /\ IdleIndexVars

NextSplit ==
    \/ SplitDocument
    \/ SplitText

SpecSplit == InitSplit /\ [][NextSplit]_vars

\* the loops step by step; a loop that can take a step eventually takes it
NextLoop == CSBegin \/ CSIterate \/ DCBegin \/ DCIterate

SpecLoop == InitSplit /\ [][NextLoop]_vars /\ WF_vars(NextLoop)

InitStore == IdleSplitVars /\ IdleCleanVars /\ InitStoreVars /\ IdleIndexVars

NextStore ==
    \/ \E id \in StoreIds, c \in StoreContents, m \in StoreMetadata,
          fault \in {"none", "open", "write", "meta"} :
            SaveDocument(id, c, m, fault)
    \/ \E id \in StoreIds, fault \in {"none", "read", "read_meta"} :
            RetrieveDocument(id, fault)
    \/ \E id \in StoreIds, fault \in {"none", "unlink", "unlink_meta"} :
            DeleteDocument(id, fault)

SpecStore == InitStore /\ [][NextStore]_vars

\* the store used with two ids: the plain id and an id that differs from it
\* in one part, or the two long ids
InitPair ==
    /\ IdleSplitVars /\ IdleCleanVars /\ IdleIndexVars
    /\ \E ids \in { {Ids.plain, Ids[k]} :
                        k \in DOMAIN Ids \ {"plain", "longX", "longY"} }
                    \cup { {Ids.longX, Ids.longY} } :
          stPaths = [id \in ids |-> ComputeStoragePath(id)]
    /\ fs = [p \in {stPaths[id] : id \in DOMAIN stPaths} |->
                [meta |-> NoSidecar, data |-> Absent]]
    /\ stHist = [p \in {stPaths[id] : id \in DOMAIN stPaths} |-> Untouched]
    /\ stOp = NoOp
    /\ race = NoRace

NextPair ==
    \/ \E id \in DOMAIN stPaths,
          c \in {StrValue(<<97>>), BytesValue(<<98>>)},
          m \in {NoMeta, MetaDict([k |-> 1]), MetaDict([k |-> 2])},
          fault \in {"none", "open", "write", "meta"} :
            SaveDocument(id, c, m, fault)
    \/ \E id \in DOMAIN stPaths, fault \in {"none", "read", "read_meta"} :
            RetrieveDocument(id, fault)
    \/ \E id \in DOMAIN stPaths, kind \in {"cut", "not_utf8"} :
            DamageSidecar(id, kind)
    \/ \E id \in DOMAIN stPaths, fault \in {"none", "unlink", "unlink_meta"} :
            DeleteDocument(id, fault)

SpecPair == InitPair /\ [][NextPair]_vars

\* one caller saves, step by step, while another retrieves, step by step
InitStoreRace ==
    /\ IdleSplitVars /\ IdleCleanVars /\ IdleIndexVars
    /\ stPaths = [id \in {Ids.plain} |-> ComputeStoragePath(id)]
    /\ fs = [p \in {stPaths[id] : id \in DOMAIN stPaths} |->
                [meta |-> NoSidecar, data |-> Absent]]
    /\ stHist = [p \in {stPaths[id] : id \in DOMAIN stPaths} |-> Untouched]
    /\ stOp = NoOp
    /\ race = NoRace

NextStoreRace ==
    \/ \E c \in StoreContents, m \in StoreMetadata : SaveOpen(c, m)
    \/ SaveWrite
    \/ SaveMetaOpen
    \/ SaveMetaDump
    \/ RetrBegin
    \/ RetrOpenContent
    \/ RetrReadContent
    \/ RetrReadMeta

SpecStoreRace == InitStoreRace /\ [][NextStoreRace]_vars

InitIndex == IdleSplitVars /\ IdleCleanVars /\ IdleStoreVars /\ InitIndexVars

NextIndex ==
    \/ \E batch \in Batches, fault \in {"none", "encode", "upsert"} :
            AddDocuments(batch, fault)
    \/ \E q \in IndexQueries, n \in 1..MaxResults, f \in IndexFilters,
          fault \in {"none", "encode", "query"} :
            Search(q, n, f, fault)

SpecIndex == InitIndex /\ [][NextIndex]_vars

\* the index searched with an n_results that is not positive: 0 and -1
NextTopK ==
    \/ \E batch \in Batches, fault \in {"none", "encode", "upsert"} :
            AddDocuments(batch, fault)
    \/ \E q \in IndexQueries, n \in {0 - 1, 0}, f \in IndexFilters,
          fault \in {"none", "encode", "query"} :
            Search(q, n, f, fault)

SpecTopK == InitIndex /\ [][NextTopK]_vars

\* the raw texts: every text of up to MaxText characters out of "A", space,
\* newline, tab, "<" and ">"
InitClean ==
    /\ IdleSplitVars /\ IdleStoreVars /\ IdleIndexVars
    /\ rawText \in UNION { [1..n -> {CapitalA, Space, Newline, Tab, Lt, Gt}] :
                              n \in 0..MaxText }
    /\ cleaned = [text |-> << >>, by |-> "none", flag |-> FALSE]

NextClean ==
    \/ \E to_lowercase \in BOOLEAN : CallClean(to_lowercase)
    \/ \E remove_html \in BOOLEAN : CallCleanText(remove_html)

SpecClean == InitClean /\ [][NextClean]_vars

NextAddRace ==
    \/ \E c \in Callers,
          batch \in UNION { [1..n -> {1, 2, 6}] : n \in 0..MaxBatch } :
            AddBegin(c, batch)
    \/ \E c \in Callers : AddEmbed(c)
    \/ \E c \in Callers : AddUpsert(c)

SpecAddRace == InitIndex /\ [][NextAddRace]_vars

\* ------------------------------------------------------------------------
\* Splitter properties
\* ------------------------------------------------------------------------
\* chunk_size >= 1 and 0 <= chunk_overlap < chunk_size
ValidConfig == rawSize >= 1 /\ 0 <= rawOverlap /\ rawOverlap < rawSize

ContentLen == Len(document.content)

CSCalled == csCalls > 0
DCCalled == dcOut.status # "none"

\* [start, end) ranges of the segments last returned by each splitter
CSSpans ==
    [i \in 1..Len(csOut) |->
        [start |-> csOut[i].metadata["chunk_start_index"],
         end   |-> csOut[i].metadata["chunk_end_index"]]]

DCSpans ==
    [i \in 1..Len(dcOut.chunks) |->
        [start |-> dcOut.chunks[i].start, end |-> dcOut.chunks[i].end]]

\* every segment of the chunker is the text between its two offsets
DCSpansTruthful ==
    \A i \in 1..Len(dcOut.chunks) :
        dcOut.chunks[i].content =
            PySlice(document.content, dcOut.chunks[i].start, dcOut.chunks[i].end)

Covers(spans, n) ==
    /\ Len(spans) >= 1
    /\ spans[1].start = 0
    /\ \E i \in 1..Len(spans) : spans[i].end = n
    /\ \A i \in 2..Len(spans) : spans[i].start <= spans[i-1].end
    /\ \A i \in 1..Len(spans) :
          0 <= spans[i].start /\ spans[i].start < spans[i].end /\ spans[i].end <= n
    /\ \A p \in 0..(n-1) :
          \E i \in 1..Len(spans) : spans[i].start <= p /\ p < spans[i].end

\* C1: for a non-empty document and a valid configuration the segments of
\* both splitters cover [0, len(content)) without gaps: the first starts at
\* 0, one ends at len(content), each later one starts at or before the end
\* of the one before it, and every position lies in some segment.
C1_Coverage ==
    (ValidConfig /\ ContentLen > 0) =>
        /\ CSCalled => Covers(CSSpans, ContentLen)
        /\ DCCalled => /\ dcOut.status = "ok"
                       /\ DCSpansTruthful
                       /\ Covers(DCSpans, ContentLen)

C1_Witness ==
    /\ ValidConfig /\ rawOverlap > 0 /\ ContentLen > rawSize
    /\ CSCalled /\ Len(csOut) >= 3
    /\ DCCalled /\ Len(dcOut.chunks) >= 3

OneSpan(spans, n) == spans = << [start |-> 0, end |-> n] >>

\* C2: when 0 < len(content) <= chunk_size the splitter emits exactly one
\* segment, [0, len(content)) with sequence number 0, for every valid
\* chunk_overlap.
C2_SingleSegment ==
    (ValidConfig /\ ContentLen > 0 /\ ContentLen <= rawSize) =>
        /\ CSCalled => /\ OneSpan(CSSpans, ContentLen)
                       /\ csOut[1].metadata["chunk_sequence"] = 0
        /\ DCCalled => OneSpan(DCSpans, ContentLen)

Inside(a, b) == b.start <= a.start /\ a.end <= b.end

StopsAtEnd(spans, n) ==
    /\ Cardinality({i \in 1..Len(spans) : spans[i].end = n}) = 1
    /\ Len(spans) >= 1 /\ spans[Len(spans)].end = n
    /\ \A i \in 2..Len(spans) : ~Inside(spans[i], spans[i-1])

\* C3: splitting stops once a segment ending at len(content) is emitted:
\* exactly one segment ends at len(content), it is the last one, and no
\* segment lies wholly inside the segment before it.
C3_StopsAtEnd ==
    (ValidConfig /\ ContentLen > 0) =>
        /\ CSCalled => StopsAtEnd(CSSpans, ContentLen)
        /\ DCCalled => StopsAtEnd(DCSpans, ContentLen)

OverlapExact(spans, overlap) ==
    \A i \in 1..(Len(spans) - 2) : spans[i].end - spans[i+1].start = overlap

\* C4: every consecutive pair of segments other than the final pair
\* satisfies segment[i].end - segment[i+1].start = chunk_overlap.
C4_OverlapExact ==
    ValidConfig =>
        /\ CSCalled => OverlapExact(CSSpans, rawOverlap)
        /\ DCCalled => OverlapExact(DCSpans, rawOverlap)

\* C5: splitting the same document again with the same parameters returns
\* the identical segment list: the same number of segments, the same
\* offsets and contents, and the same segment ids.
C5_SameSegmentsAndIds == [][CSCalled => csOut' = csOut]_vars

\* ------------------------------------------------------------------------
\* Document store properties
\* ------------------------------------------------------------------------
LastEntry == stHist[StoragePath(stOp.id)]

\* C6: a retrieve_document that follows a returned save_document of the same
\* entry, with no other change of the entry in between, returns the content
\* that was stored: text as that text, bytes as those bytes.
C6_ContentRoundTrip ==
    (stOp.op = "retrieve" /\ LastEntry.state = "saved") =>
        /\ stOp.result.kind = "found"
        /\ stOp.result.content = LastEntry.content

\* empty metadata and no metadata both count as "nothing stored"
MetaStored(m) == IF MetaTruthy(m) THEN m.d ELSE << >>

\* C7: when the last change of an entry was a returned save_document, a
\* retrieve_document that finds it returns the metadata passed to that save,
\* never the metadata of an earlier save.
C7_LatestMetadata ==
    (stOp.op = "retrieve" /\ LastEntry.state = "saved"
        /\ stOp.result.kind = "found") =>
        MetaStored(stOp.result.metadata) = MetaStored(LastEntry.metadata)

EntryGone(id) ==
    /\ ~fs[StoragePath(id)].data.exists
    /\ ~fs[StoragePath(id)].meta.exists

\* delete_document returned True whenever it left no entry behind, whether
\* there was one before or not
DeleteTrueWhenGone ==
    (stOp.op = "delete" /\ EntryGone(stOp.id)) => stOp.ok

\* after a delete that returned True the entry is not found until it is saved
NotFoundAfterDelete ==
    /\ \A id \in StoreIds :
          stHist[StoragePath(id)].state = "deleted" =>
              STRetrieve(fs, id, "none") = NotFound
    /\ (stOp.op = "retrieve" /\ LastEntry.state = "deleted") =>
              stOp.result = NotFound

\* a delete right after a delete of the same id that returned True returns
\* True and changes no file
SecondDeleteIsNoOp ==
    (/\ stOp.op = "delete" /\ stOp.ok
     /\ stOp'.op = "delete" /\ stOp'.id = stOp.id
     /\ stHist'[StoragePath(stOp.id)].deletes = 2)
        => (stOp'.ok /\ fs' = fs)

\* C8: delete_document returns True both when it removed the entry and when
\* there was none; a second delete right after one that returned True also
\* returns True and changes nothing; after a delete that returned True
\* retrieve_document returns not-found until the next save of that id.
C8_DeleteIdempotent ==
    /\ [](DeleteTrueWhenGone /\ NotFoundAfterDelete)
    /\ [][SecondDeleteIsNoOp]_vars

C8_Witness ==
    /\ stOp.op = "retrieve" /\ stOp.result = NotFound
    /\ LastEntry = Deleted(2)
    /\ \E id \in StoreIds : stHist[StoragePath(id)].state = "saved"


\* ------------------------------------------------------------------------
\* Vector index properties
\* ------------------------------------------------------------------------
RecordsOf(coll, id) == {coll[i] : i \in PositionsOf(coll, id)}
HitsOf(hits, id) == {i \in 1..Len(hits) : hits[i].id = id}

OneRecordPerId ==
    \A id \in IndexIds : Cardinality(PositionsOf(collection, id)) <= 1

HoldsLatestUpsert ==
    \A id \in IndexIds :
        IF ixHist[id].upserts = "never"
        THEN PositionsOf(collection, id) = {}
        ELSE RecordsOf(collection, id) = {ixHist[id].row}

SearchReturnsOnce ==
    (ixOp.op = "search" /\ ixOp.outcome = "returned") =>
        /\ \A id \in IndexIds : Cardinality(HitsOf(ixOp.hits, id)) <= 1
        /\ \A i \in 1..Len(collection) :
              (/\ collection[i].document = ixOp.query
               /\ MatchesFilter(collection[i], ixOp.filter)
               /\ ixOp.n >= Len(collection))
              => \E h \in 1..Len(ixOp.hits) :
                    /\ HitsOf(ixOp.hits, collection[i].id) = {h}
                    /\ ixOp.hits[h].distance = 0
                    /\ ixOp.hits[h].document = collection[i].document
                    /\ ixOp.hits[h].metadata = collection[i].metadata

\* C9: the collection holds at most one record per id, that record carries
\* the text, vector and metadata of the most recent upsert of the id, and a
\* search with a stored record's exact text returns that record once, at
\* distance 0.
C9_UpsertIdempotent ==
    OneRecordPerId /\ HoldsLatestUpsert /\ SearchReturnsOnce

C9_Witness ==
    /\ ixOp.op = "search"
    /\ Len(collection) = 2
    /\ \E i \in 1..Len(collection) :
          /\ ixHist[collection[i].id].upserts = "again"
          /\ collection[i].document = ixOp.query
          /\ HitsOf(ixOp.hits, collection[i].id) # {}

\* a document dict with no usable id or no usable text
Incomplete(doc) ==
    \/ IdKey \notin DOMAIN doc
    \/ TextKey \notin DOMAIN doc
    \/ doc[IdKey] \in {NoneVal, StrVal("")}
    \/ doc[TextKey] \in {NoneVal, StrVal("")}

LastDocs == DocsOf(ixOp.batch)
CompleteIn(docs) == {i \in 1..Len(docs) : ~Incomplete(docs[i])}
IdsWrittenBy(docs) == {docs[i][IdKey].v[1] : i \in CompleteIn(docs)}

NoIncompleteRecordStored ==
    \A i \in 1..Len(collection) :
        /\ collection[i].id \notin {"", "None"}
        /\ collection[i].document \notin {NoneVal, StrVal("")}

SkipsLoggedOthersStored ==
    (ixOp.op = "add" /\ ixOp.outcome = "returned") =>
        /\ ixOp.skipped = Len(LastDocs) - Cardinality(CompleteIn(LastDocs))
        /\ \A i \in CompleteIn(LastDocs) :
              \E r \in RecordsOf(collection, LastDocs[i][IdKey].v[1]) :
                  /\ r.document = LastDocs[i][TextKey]
                  /\ r.embedding = Embed(LastDocs[i][TextKey])

SkippedLeaveNoTrace ==
    ixOp'.op = "add" =>
        /\ \A id \in IndexIds \ IdsWrittenBy(DocsOf(ixOp'.batch)) :
              RecordsOf(collection', id) = RecordsOf(collection, id)
        /\ CompleteIn(DocsOf(ixOp'.batch)) = {} => collection' = collection

\* C10: add_documents skips every record whose id or text is missing and logs
\* one warning per skipped record; no such record is ever stored, the complete
\* records of the same batch are upserted when the call returns, and a batch of
\* skipped records only leaves the collection as it was.
C10_SkipsIncomplete ==
    /\ [](NoIncompleteRecordStored /\ SkipsLoggedOthersStored)
    /\ [][SkippedLeaveNoTrace]_vars

C10_Witness ==
    /\ ixOp.op = "add"
    /\ ixOp.outcome = "returned"
    /\ Len(ixOp.batch) = 2
    /\ ixOp.skipped = 1
    /\ Incomplete(LastDocs[1])
    /\ RecordsOf(collection, "7") # {}
    /\ \E r \in RecordsOf(collection, "d1#0") : r.document = LastDocs[2][TextKey]

\* ------------------------------------------------------------------------
\* Loop properties
\* ------------------------------------------------------------------------
Running == run.who # "none" /\ run.pc = "loop"
Finished == run.who # "none" /\ run.pc = "done"

\* between two passes through the loop body the window start has grown
StartIncreases ==
    (rawSize >= 1 /\ Running /\ run'.pc = "loop" /\ run' # run)
        => run'.start_index > run.start_index

\* C11: for every chunk_size >= 1 and every chunk_overlap the splitter
\* accepts or clamps, a split that has started finishes: the window start
\* grows strictly on every iteration, no more segments are emitted than the
\* text has characters (one for a text that fits in a chunk), and the loop
\* is left.
C11_Terminates ==
    /\ [][StartIncreases]_vars
    /\ []((rawSize >= 1 /\ run.who # "none")
            => run.emitted <= Max(1, Len(document.content)))
    /\ ((rawSize >= 1 /\ Running) ~> Finished)

C11_Witness ==
    /\ Finished /\ run.who = "dc"
    /\ rawOverlap >= rawSize /\ rawSize >= 1
    /\ run.emitted >= 3

\* ------------------------------------------------------------------------
\* Splitter configuration and edge cases
\* ------------------------------------------------------------------------
\* C12: a splitter configured with chunk_size <= 0 never emits segments: the
\* character splitter is not constructed, and the chunker's split returns no
\* segment.
C12_RejectsNonPositiveSize ==
    rawSize <= 0 =>
        /\ ~CSCalled
        /\ DCCalled => (dcOut.status # "diverges" /\ Len(dcOut.chunks) = 0)

\* C13: splitting a document whose content is empty returns normally with
\* zero segments (not one empty segment).
C13_EmptyContentNoSegments ==
    (ValidConfig /\ ContentLen = 0) =>
        /\ CSCalled => Len(csOut) = 0
        /\ DCCalled => (dcOut.status = "ok" /\ Len(dcOut.chunks) = 0)

\* C14: with chunk_overlap >= chunk_size the splitter is still constructed,
\* and its splits are those of the same chunk_size with zero overlap.
C14_OverlapClamped ==
    (rawSize >= 1 /\ rawOverlap >= rawSize) =>
        /\ CSConstructed(rawSize, rawOverlap)
        /\ DCOverlap(rawSize, rawOverlap) = 0
        /\ DCCalled => dcOut = DCSplitText(document.content, rawSize, 0)

\* exactly two segments, the second of length 1 + overlap and not empty
TwoSegments(spans, overlap) ==
    /\ Len(spans) = 2
    /\ spans[2].end - spans[2].start = 1 + overlap
    /\ \A i \in 1..Len(spans) : spans[i].end > spans[i].start

\* C15: a document one character longer than chunk_size is split, for every
\* valid overlap, into exactly two segments, the second holding
\* 1 + chunk_overlap characters, with no empty trailing segment.
C15_OneCharLonger ==
    (ValidConfig /\ ContentLen = rawSize + 1) =>
        /\ CSCalled => TwoSegments(CSSpans, rawOverlap)
        /\ DCCalled => TwoSegments(DCSpans, rawOverlap)

LineageKeys ==
    {"original_doc_id", "chunk_sequence", "chunk_start_index", "chunk_end_index"}

\* the segment at position i (from 0) of the last split_document result
\* names its parent, its position and the range of the parent it copies
Lineage(i) ==
    LET chunk == csOut[i + 1]
        meta  == chunk.metadata
        start == meta["chunk_start_index"]
        end   == meta["chunk_end_index"]
    IN  /\ meta["original_doc_id"] = document.id
        /\ meta["chunk_sequence"] = i
        /\ 0 <= start /\ start < end /\ end <= ContentLen
        /\ chunk.content = SubSeq(document.content, start + 1, end)
        /\ DOMAIN meta = (DOMAIN document.metadata) \cup LineageKeys
        /\ \A k \in (DOMAIN document.metadata) \ LineageKeys :
               meta[k] = document.metadata[k]

\* C16: every segment returned by CharacterSplitter.split_document carries
\* the parent's id, its 0-based sequence number and offsets start < end with
\* content = parent.content[start:end]; its metadata holds every parent key
\* and the four lineage keys, the lineage value winning on a shared key.
C16_Lineage ==
    CSCalled => \A i \in 0..(Len(csOut) - 1) : Lineage(i)

\* a parent whose metadata already has a chunk_sequence key was split into
\* several segments
C16_Witness ==
    /\ CSCalled
    /\ "chunk_sequence" \in DOMAIN document.metadata
    /\ Len(csOut) >= 3
    /\ csOut[3].metadata["chunk_sequence"] = 2

\* ------------------------------------------------------------------------
\* Search properties
\* ------------------------------------------------------------------------
\* positions of the stored records with this id
StoredAt(id) == {i \in 1..Len(collection) : collection[i].id = id}

\* the stored metadata satisfies the filter of the last search
PassesFilter(i) ==
    /\ ixOp.filter.key \in DOMAIN collection[i].metadata
    /\ collection[i].metadata[ixOp.filter.key] = ixOp.filter.value

\* C17: a search with a metadata filter returns only records that are stored
\* and whose stored metadata satisfies the filter.
C17_FilterCorrect ==
    (ixOp.op = "search" /\ ixOp.filter.some) =>
        \A h \in 1..Len(ixOp.hits) :
            /\ StoredAt(ixOp.hits[h].id) # {}
            /\ \A i \in StoredAt(ixOp.hits[h].id) : PassesFilter(i)

\* a filtered search over records of two parents returned the one that
\* passes and left out the one that does not
C17_Witness ==
    /\ ixOp.op = "search"
    /\ ixOp.filter.some
    /\ Len(ixOp.hits) = 1
    /\ ixOp.n = 2
    /\ \E i, j \in 1..Len(collection) :
          /\ PassesFilter(i)
          /\ ~PassesFilter(j)
          /\ collection[j].document = ixOp.query
          /\ HitsOf(ixOp.hits, collection[j].id) = {}

\* positions of the stored records that satisfy the filter of the last search
Matching == {i \in 1..Len(collection) : MatchesFilter(collection[i], ixOp.filter)}

\* C18: a search with a positive top_k in which neither the embedding nor
\* the backend fails returns a list of at most top_k entries; it has fewer
\* than top_k only when fewer matching records are stored, and then it is
\* all of them, each once, and no error is raised.
C18_TopKBound ==
    (ixOp.op = "search" /\ ixOp.n >= 1 /\ ixOp.fault = "none") =>
        /\ ixOp.outcome = "returned"
        /\ Len(ixOp.hits) <= ixOp.n
        /\ Len(ixOp.hits) < ixOp.n => Len(ixOp.hits) = Cardinality(Matching)
        /\ \A h \in 1..Len(ixOp.hits) :
              /\ HitsOf(ixOp.hits, ixOp.hits[h].id) = {h}
              /\ StoredAt(ixOp.hits[h].id) \cap Matching # {}

\* a search asked for two results where one matching record is stored
C18_Witness ==
    /\ ixOp.op = "search"
    /\ ixOp.n = 2
    /\ ~ixOp.filter.some
    /\ Len(collection) = 1
    /\ Len(ixOp.hits) = 1

\* the entry is the id, text and metadata of one stored record, with that
\* record's distance to the query
PairsOneRecord(hit) ==
    \E i \in StoredAt(hit.id) :
        /\ hit.document = collection[i].document
        /\ hit.metadata = collection[i].metadata
        /\ hit.distance = Distance(collection[i].embedding, Embed(ixOp.query))

\* C19: the list returned by search is in non-decreasing order of distance
\* and every entry pairs the id, distance, metadata and text of one stored
\* record.
C19_OrderedAndPaired ==
    (ixOp.op = "search" /\ ixOp.outcome = "returned") =>
        /\ \A h \in 1..(Len(ixOp.hits) - 1) :
              ixOp.hits[h].distance <= ixOp.hits[h + 1].distance
        /\ \A h \in 1..Len(ixOp.hits) : PairsOneRecord(ixOp.hits[h])

\* two records at different distances came back, the nearer one first
\* although it was stored later
C19_Witness ==
    /\ ixOp.op = "search"
    /\ Len(ixOp.hits) = 2
    /\ Len(collection) = 2
    /\ ixOp.hits[1].distance < ixOp.hits[2].distance
    /\ ixOp.hits[1].id = collection[2].id
    /\ ixOp.hits[2].id = collection[1].id

\* C20: a search whose top_k is 0 or negative is rejected: it ends in an
\* error and returns no result list.
C20_RejectsNonPositiveTopK ==
    (ixOp.op = "search" /\ ixOp.n <= 0) =>
        /\ ixOp.outcome = "RetrievalError"
        /\ ixOp.hits = << >>

\* ------------------------------------------------------------------------
\* Failures of the embedding function and of the backend
\* ------------------------------------------------------------------------
\* the rows the last add_documents call built
LastRows == IXRows(LastDocs)

\* C21: when the embedding function fails on the first record of a batch,
\* the other valid records of the batch are still stored.
C21_EmbedFailurePerRecord ==
    (ixOp.op = "add" /\ ixOp.fault = "encode" /\ ~HasDuplicateIds(LastRows)) =>
        \A r \in 2..Len(LastRows) :
            RecordsOf(collection, LastRows[r].id) = {LastRows[r]}

\* C22: a search in which the query embedding or the backend fails ends in
\* RetrievalError and returns no list; a search returns an empty list only
\* when nothing failed and no stored record matches.
C22_BackendFailureSurfaced ==
    ixOp.op = "search" =>
        /\ ixOp.fault # "none" =>
              (ixOp.outcome = "RetrievalError" /\ ixOp.hits = << >>)
        /\ (ixOp.outcome = "returned" /\ ixOp.hits = << >>) =>
              (ixOp.fault = "none" /\ Matching = {})

\* the backend failed on a query that a stored record matches
C22_Witness ==
    /\ ixOp.op = "search"
    /\ ixOp.fault = "query"
    /\ ixOp.outcome = "RetrievalError"
    /\ \E i \in Matching : collection[i].document = ixOp.query

\* the vector a document dict supplies under "embedding", as numbers
SuppliedVector(doc) ==
    [i \in 1..Len(doc["embedding"].v) |->
        IF doc["embedding"].v[i] = "0" THEN 0 ELSE 1]

\* C23: a record that supplies its embedding vector is stored by
\* add_documents with exactly that vector.
C23_SuppliedVectorKept ==
    (ixOp.op = "add" /\ ixOp.outcome = "returned") =>
        \A i \in CompleteIn(LastDocs) :
            "embedding" \in DOMAIN LastDocs[i] =>
                \A rec \in RecordsOf(collection, PyStr(LastDocs[i][IdKey])) :
                    rec.embedding = SuppliedVector(LastDocs[i])

\* ------------------------------------------------------------------------
\* Store failures, containment and interference
\* ------------------------------------------------------------------------
\* what retrieve_document returns for the id once the save has fully succeeded
NewPair(document_id, content, metadata) ==
    STRetrieve(STSave(fs, document_id, content, metadata, "none"), document_id,
               "none")

\* a save_document call that raises leaves the entry readable as the pair
\* it held before or as the pair the call was writing
FailedSaveAllOrNothing ==
    \A id \in StoreIds, c \in StoreContents, m \in StoreMetadata,
       fault \in {"write", "meta"} :
        SaveDocument(id, c, m, fault) =>
            STRetrieve(fs', id, "none")
                \in {STRetrieve(fs, id, "none"), NewPair(id, c, m)}

\* C24: a save_document that fails partway raises a storage error and a
\* later retrieve_document returns the complete previous pair or the
\* complete new pair.
C24_SaveAllOrNothing == [][FailedSaveAllOrNothing]_vars

\* the entry the last operation addressed
LastFiles == fs[StoragePath(stOp.id)]

\* the content file can be read in the mode its suffix selects
ContentReadable(path) ==
    STIsBinary(path) \/ Utf8Decode(fs[path].data.bytes).ok

CorruptSidecar(path) ==
    /\ fs[path].data.exists
    /\ fs[path].meta.exists
    /\ ~JsonParses(fs[path].meta.text)

\* the read returned what it returns for the same content file without sidecar
ReturnsContentAlone ==
    /\ stOp.ok
    /\ stOp.result.kind = "found"
    /\ stOp.result.metadata = NoMeta
    /\ stOp.result =
         STRetrieve([fs EXCEPT ![StoragePath(stOp.id)].meta = NoSidecar],
                    stOp.id, "none")

\* a read, in which the content file gives no error, of an entry whose
\* sidecar does not parse as JSON
CorruptSidecarRead(id, fault) ==
    /\ RetrieveDocument(id, fault)
    /\ fault # "read"
    /\ CorruptSidecar(StoragePath(id))
    /\ ContentReadable(StoragePath(id))

\* C25: retrieve_document of an entry whose content file is readable and
\* whose sidecar does not parse as JSON returns the stored content with null
\* metadata, and the read leaves the store's files unchanged.
C25_CorruptSidecarTolerated ==
    [][/\ \A id \in DOMAIN stPaths, fault \in {"none", "read_meta"} :
            CorruptSidecarRead(id, fault) => ReturnsContentAlone'
       /\ stOp'.op = "retrieve" => fs' = fs]_vars

\* ------------------------------------------------------------------------
\* Calls running side by side
\* ------------------------------------------------------------------------
\* the rows of a call that carry the id
RowsOf(c, id) ==
    {adds.calls[c].rows[i] :
        i \in {j \in 1..Len(adds.calls[c].rows) : adds.calls[c].rows[j].id = id}}

\* C26: whatever way two add_documents calls interleave, the collection
\* holds under every id the whole record (vector, text, metadata) of the
\* call whose backend upsert of that id executed last.
C26_LastWriterWins ==
    \A id \in IndexIds :
        IF adds.last[id] = "none"
        THEN PositionsOf(collection, id) = {}
        ELSE /\ Cardinality(PositionsOf(collection, id)) = 1
             /\ RecordsOf(collection, id) = RowsOf(adds.last[id], id)

\* both calls wrote "d1#0" with different text and returned; the call that
\* finished its upsert of the id last is the one found in the collection
C26_Witness ==
    /\ \A c \in Callers : adds.calls[c].pc = "returned"
    /\ \A c \in Callers : RowsOf(c, "d1#0") # {}
    /\ RowsOf("c1", "d1#0") # RowsOf("c2", "d1#0")
    /\ adds.last["d1#0"] = "c1"
    /\ adds.last["7"] = "c2"

\* ------------------------------------------------------------------------
\* Text cleaner properties
\* ------------------------------------------------------------------------
BlankLine(line) == \A i \in 1..Len(line) : line[i] \in Whitespace

\* number of places where two lines with text are separated by blank lines only
ParagraphBreaks(s) ==
    LET lines == SplitLines(s, << >>)
    IN  Cardinality({i \in 1..Len(lines) :
            /\ ~BlankLine(lines[i])
            /\ \E j \in (i + 2)..Len(lines) :
                  /\ ~BlankLine(lines[j])
                  /\ \A k \in (i + 1)..(j - 1) : BlankLine(lines[k])})

NoTripleNewline(s) ==
    \A i \in 1..(Len(s) - 2) :
        ~(s[i] = Newline /\ s[i + 1] = Newline /\ s[i + 2] = Newline)

LinesTrimmed(s) ==
    LET lines == SplitLines(s, << >>)
    IN  \A i \in 1..Len(lines) :
            lines[i] = << >>
            \/ (lines[i][1] \notin Whitespace /\ lines[i][Len(lines[i])] \notin Whitespace)

\* the text whose whitespace the last call normalized
NormalizedInput ==
    IF cleaned.by = "clean_text" /\ cleaned.flag THEN SubTags(rawText, 1)
    ELSE rawText

\* C27: the cleaner's output has no three newlines in a row, none of its
\* lines starts or ends with whitespace, and it has one paragraph break for
\* every place where the input separates two paragraphs by blank lines.
C27_ParagraphBreaksKept ==
    cleaned.by # "none" =>
        /\ NoTripleNewline(cleaned.text)
        /\ LinesTrimmed(cleaned.text)
        /\ ParagraphBreaks(cleaned.text) = ParagraphBreaks(NormalizedInput)

\* the same for processors.TextCleaner.clean alone
CleanKeepsParagraphs == cleaned.by = "clean" => C27_ParagraphBreaksKept

\* ------------------------------------------------------------------------
\* C28  For every id the store is used with, a bare file name and an id whose
\*      authority is ".." included, the storage path lies inside the base
\*      directory, and save, retrieve and delete touch no file outside it.
\* ------------------------------------------------------------------------
DotDot == <<".", ".">>

\* the path stays below base_path: joined to it, and without a ".." component
InsideBase(path) ==
    /\ path.anchor = "base_path"
    /\ \A i \in 1..Len(path.parts) : path.parts[i] # DotDot

C28_PathsInsideBase ==
    /\ \A id \in DOMAIN stPaths : InsideBase(StoragePath(id))
    /\ \A p \in DOMAIN fs :
          (fs[p].data.exists \/ fs[p].meta.exists) => InsideBase(p)
    /\ stOp.op # "none" => InsideBase(StoragePath(stOp.id))

\* ------------------------------------------------------------------------
\* C29  A save or a delete of one id leaves what retrieve returns for every
\*      other id unchanged, also when the two ids differ only in the scheme,
\*      the query string or the fragment, or only after the first
\*      PathPartMax characters of the encoded path.
\* ------------------------------------------------------------------------
OtherIdsUnchanged ==
    stOp'.op \in {"save", "delete"} =>
        \A other \in DOMAIN stPaths \ {stOp'.id} :
            STRetrieve(fs', other, "none") = STRetrieve(fs, other, "none")

C29_OtherIdsUnchanged == [][OtherIdsUnchanged]_vars

\* ------------------------------------------------------------------------
\* C30  A retrieve that runs side by side with a save of the same id returns
\*      the pair stored before the save or the pair the save stores, never
\*      the content of one with the metadata of another.
\* ------------------------------------------------------------------------
C30_RetrieveSeesOnePair ==
    (stOp.op = "retrieve" /\ race.read.pc = "idle")
        => stOp.result \in race.allowed

====
